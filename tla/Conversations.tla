--------------------------- MODULE Conversations ---------------------------
(***************************************************************************)
(* Conversations with agents: WebSocket endpoints that chat with an        *)
(* AgentVM and are registered with the connection manager                  *)
(* (routers/sessions.py, agent_vm.py), and webhooks that are broadcast to  *)
(* all sockets and routed to the agents they mention (routers/webhooks.py, *)
(* message_router.py), whose inferences are broadcast too.                 *)
(*                                                                         *)
(* Everything runs in one event loop: what happens between two awaits is   *)
(* one step.  Sends are awaits; those of an endpoint are part of the step  *)
(* that follows.  A send to a client that has left raises, or is lost; a    *)
(* client leaves no question unread.                                       *)
(* Messages are left out, and which agent an inference runs; a history     *)
(* file that cannot be read or written is one of the exceptions a step     *)
(* meets.                                                                  *)
(* Broadcasts of alerts and cluster events walk the same lists; nothing    *)
(* depends on how they end.                                                *)
(***************************************************************************)
EXTENDS Naturals, FiniteSets, Sequences, SequencesExt

CONSTANTS Sockets, Sessions,
          SessionOf,        \* Sockets -> the session its client asks for
          Webhooks,
          MaxMentions,      \* bound: agents that a message mentions
          MaxLoops,         \* max_loops of AgentVM.chat
          None

ASSUME ConversationAssumption ==
  /\ IsFiniteSet(Sockets)
  /\ SessionOf \in [Sockets -> Sessions]
  /\ MaxLoops \in Nat \ {0} /\ MaxMentions \in Nat \ {0}
  /\ None \notin Sessions

VARIABLES online,           \* Sockets -> is its client there?
          stage,            \* Sockets -> what its endpoint awaits
          loops,            \* Sockets -> rounds of the chat so far
          active,           \* Sessions -> registered sockets; <<>>: no such key
          cast              \* Casters -> state of its broadcast

endpoint == <<online, stage, loops>>
conversationVars == <<endpoint, active, cast>>

\* Of a webhook: its announcement (0), and the inference of each mention.  The
\* second broadcast of a card action takes the place of the first inference.
Casters == Webhooks \X (0..MaxMentions)

Served == {"idle", "ask", "tool", "error"}
Keys == {k \in Sessions : active[k] # <<>>}
Registered == UNION {ToSet(active[k]) : k \in Sessions}

\* on: "none", "thinking", "list" (sending), "over", "broken" (the iterator raised)
\* or "died" (something else did); at, next: list and index to continue with; keys:
\* how many there were, seen: which have been visited.  steady: none has come or
\* gone since.  owed: the sockets that were registered all the time and are still to
\* get the message, those excepted that were skipped because an earlier one left
\* their list.
Off == [on |-> "none", at |-> None, next |-> 1, keys |-> 0, seen |-> {},
        steady |-> TRUE, owed |-> {}]
Fresh == [Off EXCEPT !.on = "list", !.keys = Cardinality(Keys), !.owed = Registered]
Outcome(r, on) == [Off EXCEPT !.on = on, !.steady = r.steady, !.owed = r.owed]

ConversationInit ==
  /\ online = [s \in Sockets |-> TRUE]
  /\ stage = [s \in Sockets |-> "new"] /\ loops = [s \in Sockets |-> 0]
  /\ active = [k \in Sessions |-> <<>>]
  /\ cast = [c \in Casters |-> Off]

-------------------------------------------------------------------------------
(* The connection manager *)

Turns(s, to) == stage' = [stage EXCEPT ![s] = to]

\* A key of the dictionary has come or gone.
Unsteady(r) == [r EXCEPT !.steady = FALSE, !.owed = {}]
Running(r) == r.on = "list"

Register(s) ==
  LET k == SessionOf[s] IN
  /\ active' = [active EXCEPT ![k] = Append(@, s)]
  /\ cast' = [c \in Casters |->
                IF Running(cast[c]) /\ active[k] = <<>> THEN Unsteady(cast[c]) ELSE cast[c]]

\* list.remove moves the sockets behind the i-th up, under iterators that have passed
\* it.  An empty list is deleted, with its key: an iterator of it is at its end.
Forget(r, k, i) ==
  LET list == active[k]
      skipped == IF r.at = k /\ i < r.next /\ r.next <= Len(list) THEN {list[r.next]} ELSE {}
  IN  IF Len(list) = 1
      THEN [Unsteady(r) EXCEPT !.at = IF @ = k THEN None ELSE @, !.seen = @ \ {k}]
      ELSE [r EXCEPT !.owed = @ \ ({list[i]} \cup skipped)]

\* list.remove takes the first that is equal.  There is one whenever an endpoint
\* closes, as TablesMatch says; disconnect would change nothing otherwise.
Unregister(s) ==
  LET k == SessionOf[s] IN
  \E i \in 1..Len(active[k]) :
    /\ active[k][i] = s /\ \A j \in 1..(i - 1) : active[k][j] # s
    /\ active' = [active EXCEPT ![k] = RemoveAt(@, i)]
    /\ cast' = [c \in Casters |->
                  IF Running(cast[c]) THEN Forget(cast[c], k, i) ELSE cast[c]]

\* The iterator of the dictionary: it raises if the size has changed, and may pass
\* over keys if they have changed and the size has not.
NextKey(r) ==
  IF Cardinality(Keys) # r.keys THEN {Outcome(r, "broken")}
  ELSE {[r EXCEPT !.at = k, !.next = 2, !.seen = @ \cup {k}, !.owed = @ \ {active[k][1]}] :
          k \in Keys \ r.seen}
       \cup (IF Keys \subseteq r.seen \/ ~r.steady THEN {Outcome(r, "over")} ELSE {})

WalkStopping(r) ==
  IF r.at # None /\ r.next <= Len(active[r.at]) /\ online[active[r.at][r.next - 1]]
  THEN {[r EXCEPT !.next = @ + 1, !.owed = @ \ {active[r.at][r.next]}]}
  ELSE NextKey(r)

\* broadcast_global from one send, which may have failed, to the next.
Walk(r) ==
  IF r.at # None /\ r.next <= Len(active[r.at])
  THEN {[r EXCEPT !.next = @ + 1, !.owed = @ \ {active[r.at][r.next]}]}
  ELSE NextKey(r)

-------------------------------------------------------------------------------
(* An endpoint and its client *)

Connect(s) ==
  /\ stage[s] = "new" /\ Turns(s, "greeting")
  /\ UNCHANGED <<online, loops, active, cast>>

Leave(s) ==
  /\ online[s] /\ stage[s] \in Served \cup {"greeting"}
  /\ online' = [online EXCEPT ![s] = FALSE]
  /\ UNCHANGED <<stage, loops, active, cast>>

\* The first message: the session is opened and the socket registered.
Greet(s) ==
  /\ stage[s] = "greeting"
  /\ Turns(s, "idle") /\ Register(s)
  /\ UNCHANGED <<online, loops>>

End(s) == Turns(s, "closed") /\ online' = [online EXCEPT ![s] = FALSE]

\* The client has left, or its message is refused, or opening the session, the VM or
\* the history raises; by then the socket may be registered, and is removed again.
Dismiss(s) ==
  /\ stage[s] = "greeting" /\ End(s)
  /\ \/ UNCHANGED cast
     \/ /\ active[SessionOf[s]] = <<>>
        /\ cast' = [c \in Casters |->
                      IF Running(cast[c]) THEN Unsteady(cast[c]) ELSE cast[c]]
  /\ UNCHANGED <<loops, active>>

\* The outer handlers: whatever ends the endpoint, its socket is removed.
Close(s) == End(s) /\ Unregister(s)

\* A question is saved and the model asked, unless it does not parse or cannot be
\* saved.  When the client has left, receive_text raises.
Receive(s) ==
  /\ stage[s] = "idle"
  /\ \/ online[s] /\ Turns(s, "ask") /\ UNCHANGED <<online, active, cast>>
     \/ Close(s)
  /\ UNCHANGED loops

ChatEnds(s, to) == Turns(s, to) /\ loops' = [loops EXCEPT ![s] = 0]
ChatGoesOn(s) == Turns(s, "ask") /\ loops' = [loops EXCEPT ![s] = @ + 1]

\* The model's answer: the last one, or one with tool calls; or an exception of the
\* model, a send or the history, which the client is told.
Ask(s) ==
  /\ stage[s] = "ask"
  /\ \/ Turns(s, "tool") /\ UNCHANGED loops
     \/ \E to \in {"idle", "error"} : ChatEnds(s, to)
  /\ UNCHANGED <<online, active, cast>>

ToolOneMore(s) ==
  /\ stage[s] = "tool"
  /\ \/ loops[s] < MaxLoops /\ ChatGoesOn(s)
     \/ loops[s] = MaxLoops /\ ChatEnds(s, "idle")
  /\ UNCHANGED <<online, active, cast>>

ToolForEver(s) ==
  /\ stage[s] = "tool" /\ \E to \in {"ask", "error"} : Turns(s, to)
  /\ UNCHANGED <<online, loops, active, cast>>

\* The tools have run, or one raised.  There are at most MaxLoops rounds.
Tool(s) ==
  /\ stage[s] = "tool"
  /\ \/ loops[s] + 1 < MaxLoops /\ ChatGoesOn(s)
     \/ loops[s] + 1 = MaxLoops /\ ChatEnds(s, "idle")
     \/ ChatEnds(s, "error")
  /\ UNCHANGED <<online, active, cast>>

ApologizeLeaving(s) ==
  /\ stage[s] = "error" /\ \E to \in {"idle", "closed"} : Turns(s, to)
  /\ UNCHANGED <<online, loops, active, cast>>

\* The client is told of an exception.  That raises again if it has left.
Apologize(s) ==
  /\ stage[s] = "error"
  /\ \/ Turns(s, "idle") /\ UNCHANGED <<online, active, cast>>
     \/ ~online[s] /\ Close(s)
  /\ UNCHANGED loops

Serve(s) == Dismiss(s) \/ Receive(s) \/ Ask(s) \/ Tool(s) \/ Apologize(s)

-------------------------------------------------------------------------------
(* Webhooks and inferences *)

Announcement(w) == <<w, 0>>
Becomes(c, r) == cast' = [cast EXCEPT ![c] = r]

\* route_message creates one task per mention.  The ledger may raise before the
\* first, the history before any.
Route(w, r) ==
  \E n \in 0..MaxMentions, on \in {"over", "died"} :
    /\ on = "died" => n < MaxMentions
    /\ cast' = [c \in Casters |->
                  IF c = Announcement(w) THEN Outcome(r, on)
                  ELSE IF c \in {<<w, i>> : i \in 1..n} THEN [Off EXCEPT !.on = "thinking"]
                  ELSE cast[c]]

\* route_action: recorded and broadcast.
Act(w, r) ==
  \E n \in Walk(Fresh) :
    cast' = [cast EXCEPT ![Announcement(w)] = Outcome(r, "over"), ![<<w, 1>>] = n]

\* The announcement goes on, or is over, and what follows starts.
Announce(w, r) ==
  \E n \in Walk(r) :
    \/ n.on # "over" /\ Becomes(Announcement(w), n)
    \/ n.on = "over" /\ (Route(w, n) \/ Act(w, n))

\* The signature is verified, the message parsed and recorded.
Accept(w) ==
  /\ cast[Announcement(w)].on = "none"
  /\ \/ Announce(w, Fresh)
     \/ Becomes(Announcement(w), Outcome(Off, "died"))
  /\ UNCHANGED <<endpoint, active>>

\* The first chunk of an inference is broadcast.  That is also its last: the call of
\* create_entry that follows does not match its signature and raises TypeError.
Think(c) ==
  /\ cast[c].on = "thinking"
  /\ \/ \E n \in Walk(Fresh) : Becomes(c, n)
     \/ Becomes(c, Outcome(Off, "died"))
  /\ UNCHANGED <<endpoint, active>>

Send(c) ==
  /\ cast[c].on = "list"
  /\ IF c[2] = 0 THEN Announce(c[1], cast[c])
     ELSE \E n \in Walk(cast[c]) : Becomes(c, n)
  /\ UNCHANGED <<endpoint, active>>

ConversationNext ==
  \/ \E s \in Sockets : Connect(s) \/ Leave(s) \/ Greet(s) \/ Serve(s)
  \/ \E w \in Webhooks : Accept(w)
  \/ \E c \in Casters : Think(c) \/ Send(c)

ConversationSpec == ConversationInit /\ [][ConversationNext]_conversationVars

\* The event loop goes on; models, tools and sends come to an end.
ConversationFairness == \A s \in Sockets : WF_conversationVars(Serve(s))

FairConversationSpec == ConversationSpec /\ ConversationFairness

-------------------------------------------------------------------------------
(* Properties. *)

ConversationTypeOK ==
  /\ online \in [Sockets -> BOOLEAN]
  /\ stage \in [Sockets -> {"new", "greeting", "closed"} \cup Served]
  /\ loops \in [Sockets -> 0..(MaxLoops - 1)]
  /\ active \in [Sessions -> Seq(Sockets)]
  /\ cast \in [Casters ->
       [on : {"none", "thinking", "list", "over", "broken", "died"},
        at : Sessions \cup {None}, next : Nat \ {0}, keys : Nat,
        seen : SUBSET Sessions, steady : BOOLEAN, owed : SUBSET Sockets]]

\* The connection manager holds exactly the sockets whose endpoints serve them, each
\* once and under its session, however an endpoint ends.
TablesMatch ==
  \A k \in Sessions :
    /\ ToSet(active[k]) = {s \in Sockets : SessionOf[s] = k /\ stage[s] \in Served}
    /\ IsInjective(active[k])

\* A broadcast during which no session comes or goes ends without an exception and
\* reaches every socket that is registered all the time, but for one per socket that
\* leaves a list behind the iterator.
NobodyMissed ==
  \A c \in Casters : /\ cast[c].on = "over" => cast[c].owed = {}
                     /\ cast[c].on = "broken" => ~cast[c].steady

\* A client that has left is forgotten, whatever its endpoint is doing.
GoneIsForgotten ==
  \A s \in Sockets : ~online[s] ~> s \notin Registered
===============================================================================
