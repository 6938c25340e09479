--------------------------- MODULE AlertAggregator ---------------------------
(***************************************************************************)
(* The alert engine (cluster/alert_engine.py): every process emits alerts  *)
(* into a buffer and runs one aggregation task, which takes the buffer     *)
(* once per window, removes duplicates and sends one summary to each       *)
(* channel and to its web clients.  With Redis the buffer is a list that   *)
(* all processes share, otherwise a Python list of the process.            *)
(*                                                                         *)
(* An alert is an id with the key it is deduplicated by: source, type and  *)
(* severity.  Grouping by type and the text of a summary are layout.       *)
(***************************************************************************)
EXTENDS Naturals, Sequences, SequencesExt

CONSTANTS Alerts,           \* alerts that may be emitted, each at most once
          Key,              \* Alerts -> dedup keys
          Procs,
          Shared,           \* processes configured with the Redis URL
          Channels,         \* sequence of channels, the HUD broadcast last
          PageSize,         \* batch_size
          MaxFaults         \* bound: crashes, Redis errors, failed sends

ASSUME AlertAssumption ==
  /\ Shared \subseteq Procs /\ "redis" \notin Procs
  /\ DOMAIN Key = Alerts
  /\ PageSize \in Nat \ {0} /\ MaxFaults \in Nat
  /\ Channels \in Seq(ToSet(Channels)) /\ Channels # <<>> /\ IsInjective(Channels)

VARIABLES buffer,           \* places -> alerts, oldest first
          pc,               \* Procs -> "down", "sleep", "fetch", "send", "stopped"
          raw,              \* Procs -> raw_events of the batch in progress
          next,             \* Procs -> index of the channel to send to
          stopping,         \* processes whose _stop_event is set
          received,         \* channels -> summaries sent: what each batch kept
          faults,
          emitted,          \* history: alerts in the order of their emission
          gone              \* history: alerts that left the buffer and that no
                            \* channel has got, and will not, with the reason
alertVars == <<buffer, pc, raw, next, stopping, received, faults, emitted, gone>>

Place(p) == IF p \in Shared THEN "redis" ELSE p
Places == {Place(p) : p \in Procs}

Fault == faults < MaxFaults /\ faults' = faults + 1

-------------------------------------------------------------------------------
(* _aggregate *)

\* Of the alerts with one key the first one in the batch is kept.
Aggregate(s) ==
  {s[n] : n \in {k \in 1..Len(s) : \A m \in 1..(k - 1) : Key[s[m]] # Key[s[k]]}}

Summary(s) == [kept |-> Aggregate(s), from |-> ToSet(s)]

Reported(a) == \E c \in ToSet(Channels) : \E m \in ToSet(received[c]) : a \in m.from

Drop(S, why) == gone' = gone \cup {<<a, why>> : a \in {b \in S : ~Reported(b)}}

-------------------------------------------------------------------------------
(* Processes and emission *)

AlertInit ==
  /\ buffer = [x \in Places |-> <<>>]
  /\ pc = [p \in Procs |-> "down"]
  /\ raw = [p \in Procs |-> <<>>]
  /\ next = [p \in Procs |-> 1]
  /\ stopping = {}
  /\ received = [c \in ToSet(Channels) |-> <<>>]
  /\ faults = 0 /\ emitted = <<>> /\ gone = {}

StartAggregator(p) ==
  /\ pc[p] = "down"
  /\ pc' = [pc EXCEPT ![p] = "sleep"]
  /\ stopping' = stopping \ {p}
  /\ UNCHANGED <<buffer, raw, next, received, faults, emitted, gone>>

\* stop() sets the event; it returns when the loop has ended.
StopAggregator(p) ==
  /\ pc[p] \in {"sleep", "fetch", "send"} /\ p \notin stopping
  /\ stopping' = stopping \cup {p}
  /\ UNCHANGED <<buffer, pc, raw, next, received, faults, emitted, gone>>

Emit(p, a) ==
  /\ pc[p] # "down" /\ a \notin ToSet(emitted)
  /\ buffer' = [buffer EXCEPT ![Place(p)] = Append(@, a)]
  /\ emitted' = Append(emitted, a)
  /\ UNCHANGED <<pc, raw, next, stopping, received, faults, gone>>

-------------------------------------------------------------------------------
(* _run_loop, _process_batch, _dispatch *)

NextWindow(p) ==
  /\ pc[p] = "sleep"
  /\ pc' = [pc EXCEPT ![p] = "fetch"]
  /\ UNCHANGED <<buffer, raw, next, stopping, received, faults, emitted, gone>>

\* The batch is over: `while not self._stop_event.is_set()`.
LoopEnd(p) == [pc EXCEPT ![p] = IF p \in stopping THEN "stopped" ELSE "sleep"]

\* Nothing was taken: return.  Otherwise the batch goes to the channels.
Fetched(p, batch) ==
  /\ raw' = [raw EXCEPT ![p] = batch]
  /\ pc' = IF batch = <<>> THEN LoopEnd(p) ELSE [pc EXCEPT ![p] = "send"]

FirstPage(s) == SubSeq(s, 1, IF Len(s) < PageSize THEN Len(s) ELSE PageSize)
LaterPages(s) == SubSeq(s, Len(FirstPage(s)) + 1, Len(s))

FetchRedisNeverBreaks(p) ==
  /\ p \in Shared /\ pc[p] = "fetch"
  /\ buffer' = [buffer EXCEPT !["redis"] = LaterPages(@)]
  /\ raw' = [raw EXCEPT ![p] = @ \o FirstPage(buffer["redis"])]
  /\ UNCHANGED <<pc, next, stopping, received, faults, emitted, gone>>

\* One MULTI/EXEC of PageSize RPOPs, repeated until one finds nothing: the
\* results always number PageSize, empty ones included.
FetchRedis(p) ==
  /\ p \in Shared /\ pc[p] = "fetch"
  /\ LET page == FirstPage(buffer["redis"]) IN
       /\ buffer' = [buffer EXCEPT !["redis"] = LaterPages(@)]
       /\ IF page = <<>> THEN Fetched(p, raw[p])
          ELSE raw' = [raw EXCEPT ![p] = @ \o page] /\ UNCHANGED pc
  /\ UNCHANGED <<next, stopping, received, faults, emitted, gone>>

FetchFailsReturns(p) ==
  /\ p \in Shared /\ pc[p] = "fetch" /\ Fault
  /\ Fetched(p, <<>>)
  /\ UNCHANGED <<buffer, next, stopping, received, emitted, gone>>

\* pipe.execute() raises: the loop is left with what the earlier pages held.
\* If only the reply was lost, the page is gone from the list.
FetchFails(p) ==
  /\ p \in Shared /\ pc[p] = "fetch" /\ Fault
  /\ Fetched(p, raw[p])
  /\ \/ UNCHANGED <<buffer, gone>>
     \/ /\ buffer' = [buffer EXCEPT !["redis"] = LaterPages(@)]
        /\ Drop(ToSet(FirstPage(buffer["redis"])), "reply")
  /\ UNCHANGED <<next, stopping, received, emitted>>

TakeBufferNoReset(p) ==
  /\ p \notin Shared /\ pc[p] = "fetch"
  /\ Fetched(p, buffer[p])
  /\ UNCHANGED <<buffer, next, stopping, received, faults, emitted, gone>>

\* The list of the process, swapped for an empty one under the asyncio lock.
TakeBuffer(p) ==
  /\ p \notin Shared /\ pc[p] = "fetch"
  /\ Fetched(p, buffer[p])
  /\ buffer' = [buffer EXCEPT ![p] = <<>>]
  /\ UNCHANGED <<next, stopping, received, faults, emitted, gone>>

SendKeepsBatch(p) ==
  /\ pc[p] = "send"
  /\ received' = [received EXCEPT ![Channels[next[p]]] = Append(@, Summary(raw[p]))]
  /\ next' = [next EXCEPT ![p] = IF @ = Len(Channels) THEN 1 ELSE @ + 1]
  /\ pc' = IF next'[p] = 1 THEN LoopEnd(p) ELSE pc
  /\ UNCHANGED <<buffer, raw, stopping, faults, emitted, gone>>

\* The channels one after the other; an exception is logged and the next one
\* is tried, a False of send() is ignored.
Send(p) ==
  LET c == Channels[next[p]]
      last == next[p] = Len(Channels)
  IN
  /\ pc[p] = "send"
  /\ \/ /\ received' = [received EXCEPT ![c] = Append(@, Summary(raw[p]))]
        /\ UNCHANGED <<faults, gone>>
     \/ /\ Fault /\ UNCHANGED received
        /\ IF last THEN Drop(ToSet(raw[p]), "send") ELSE UNCHANGED gone
  /\ next' = [next EXCEPT ![p] = IF last THEN 1 ELSE @ + 1]
  /\ raw' = IF last THEN [raw EXCEPT ![p] = <<>>] ELSE raw
  /\ pc' = IF last THEN LoopEnd(p) ELSE pc
  /\ UNCHANGED <<buffer, stopping, emitted>>

\* stop() has returned and the application ends, and with it a list of its own.
Exit(p) ==
  /\ pc[p] = "stopped"
  /\ pc' = [pc EXCEPT ![p] = "down"]
  /\ IF p \in Shared THEN UNCHANGED <<buffer, gone>>
     ELSE buffer' = [buffer EXCEPT ![p] = <<>>] /\ Drop(ToSet(buffer[p]), "exit")
  /\ UNCHANGED <<raw, next, stopping, received, faults, emitted>>

\* The process dies with the batch in progress and its own list.
CrashProcess(p) ==
  /\ pc[p] # "down" /\ Fault
  /\ pc' = [pc EXCEPT ![p] = "down"]
  /\ raw' = [raw EXCEPT ![p] = <<>>]
  /\ next' = [next EXCEPT ![p] = 1]
  /\ buffer' = IF p \in Shared THEN buffer ELSE [buffer EXCEPT ![p] = <<>>]
  /\ Drop(ToSet(raw[p]) \cup (IF p \in Shared THEN {} ELSE ToSet(buffer[p])), "crash")
  /\ UNCHANGED <<stopping, received, emitted>>

Task(p) == NextWindow(p) \/ FetchRedis(p) \/ TakeBuffer(p) \/ Send(p)

AlertNext ==
  \E p \in Procs :
    \/ StartAggregator(p) \/ StopAggregator(p) \/ (\E a \in Alerts : Emit(p, a))
    \/ Task(p) \/ FetchFails(p) \/ Exit(p) \/ CrashProcess(p)

AlertSpec == AlertInit /\ [][AlertNext]_alertVars

\* The event loop of a running process keeps scheduling its task.
FairAlertSpec == AlertSpec /\ \A p \in Procs : WF_alertVars(Task(p))

-------------------------------------------------------------------------------
(* Properties. *)

AlertTypeOK ==
  /\ \A x \in Places : buffer[x] \in Seq(Alerts)
  /\ pc \in [Procs -> {"down", "sleep", "fetch", "send", "stopped"}]
  /\ \A p \in Procs : raw[p] \in Seq(Alerts) /\ next[p] \in 1..Len(Channels)
  /\ \A p \in Procs : pc[p] \in {"sleep", "stopped", "down"} => raw[p] = <<>>
  /\ stopping \subseteq Procs
  /\ faults \in 0..MaxFaults
  /\ gone \subseteq Alerts \X {"reply", "send", "exit", "crash"}

\* No alert is told to a channel twice, although several processes drain one
\* list, are stopped, restarted and time out: batches never overlap.
ToldOnce ==
  \A c \in ToSet(Channels) : \A m, n \in 1..Len(received[c]) :
    m # n => received[c][m].from \cap received[c][n].from = {}

\* An alert that was emitted is in a buffer or in a batch, or was reported by a
\* summary, or a crash, an exit, a lost reply or failed sends made away with it:
\* no path of the loop drops alerts on its own.
NoneVanishes ==
  \A a \in ToSet(emitted) :
    \/ \E x \in Places : a \in ToSet(buffer[x])
    \/ \E p \in Procs : a \in ToSet(raw[p])
    \/ Reported(a)
    \/ \E g \in gone : g[1] = a

EmittedBefore(a, b) ==
  \E m, n \in 1..Len(emitted) : emitted[m] = a /\ emitted[n] = b /\ m <= n

\* What the comment at alert_engine.py:145 says of _aggregate: of the alerts with one
\* key "the latest message is kept" ("但保留最新一条的消息").  So each alert of a batch
\* is spoken for by one with its key that was emitted no earlier.  The code does not
\* do that.
LatestSpeaks ==
  \A c \in ToSet(Channels) : \A m \in ToSet(received[c]) : \A b \in m.from :
    \E a \in m.kept : Key[a] = Key[b] /\ EmittedBefore(b, a)

\* Every alert is reported, or lost to a fault, or lies in a buffer whose every
\* task has been stopped or is down.
EventuallyReported ==
  \A a \in Alerts :
    (a \in ToSet(emitted)) ~>
      \/ Reported(a) \/ \E g \in gone : g[1] = a
      \/ \E x \in Places :
           /\ a \in ToSet(buffer[x])
           /\ \A p \in Procs : Place(p) = x => pc[p] \in {"down", "stopped"}
===============================================================================
