------------------------------ MODULE SyncCall ------------------------------
(***************************************************************************)
(* What a posted component promises its callers: a call takes effect in    *)
(* one step between its beginning and its end, calls one after another; a  *)
(* call that finds the component closed returns without effect; and once   *)
(* the component is closed nothing takes effect any more.                  *)
(***************************************************************************)
CONSTANTS Callers, Queues

VARIABLES call,   \* call[c][q]: "idle", "called", "effect" or "skipped"
          open    \* the components not yet closed

callVars == <<call, open>>

CallInit ==
  /\ call = [c \in Callers |-> [q \in Queues |-> "idle"]]
  /\ open = Queues

Move(c, q, from, to) ==
  /\ call[c][q] = from
  /\ call' = [call EXCEPT ![c][q] = to]

Begin(c, q) == Move(c, q, "idle", "called") /\ UNCHANGED open
Effect(c, q) == q \in open /\ Move(c, q, "called", "effect") /\ UNCHANGED open
Skip(c, q) == q \notin open /\ Move(c, q, "called", "skipped") /\ UNCHANGED open
End(c, q) ==
  /\ Move(c, q, "effect", "idle") \/ Move(c, q, "skipped", "idle")
  /\ UNCHANGED open

Close(q) == q \in open /\ open' = open \ {q} /\ UNCHANGED call

CallNext ==
  \/ \E c \in Callers, q \in Queues : Begin(c, q) \/ Effect(c, q) \/ Skip(c, q) \/ End(c, q)
  \/ \E q \in Queues : Close(q)

CallSpec == CallInit /\ [][CallNext]_callVars
=============================================================================
