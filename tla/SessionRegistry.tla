--------------------------- MODULE SessionRegistry ---------------------------
(***************************************************************************)
(* The table of business sessions kept by evrp-device and by evrp-server   *)
(* (sdk/sessionregistry.cpp).  Every public method runs under mutex_, so   *)
(* each is one step, except sweepExpiredForLogging: it reads the clock     *)
(* before it takes the mutex, so it is two.                                *)
(*                                                                         *)
(* An operation that answers a grpc::Status takes the answer as its last   *)
(* parameter, and is enabled exactly when the code gives that answer.      *)
(***************************************************************************)
EXTENDS Integers, Functions

CONSTANTS Ids,     \* session ids randomSessionId() may draw
          Peers,   \* values of ServerContext::peer()
          Lease    \* leaseTimeoutMs_, in clock ticks

ASSUME LeaseAssumption == Lease \in Nat \ {0}

VARIABLES clock,     \* steady_clock::now()
          sessions,  \* sessions_: a function from the open ids to their Record
          issued,    \* every id connect() ever returned
          sweep      \* the detached sweeping thread: its pc and its local `now`

registryVars == <<clock, sessions, issued, sweep>>

Record == [peer : Peers, lastHeartbeat : Nat]

Statuses == {"OK", "FAILED_PRECONDITION", "PERMISSION_DENIED"}

SweepAsleep == [pc |-> "asleep", now |-> 0]

RegistryInit ==
  /\ clock = 0
  /\ sessions = [id \in {} |-> 0]
  /\ issued = {}
  /\ sweep = SweepAsleep

\* now - lastHeartbeat > leaseTimeoutMs_
ExpiredAt(id, now) == now - sessions[id].lastHeartbeat > Lease

Erase(S) == sessions' = Restrict(sessions, DOMAIN sessions \ S)

-----------------------------------------------------------------------------

\* SessionRegistry::connect.  Ids are 128 random bits: a fresh one is modelled
\* as one never issued before, which implies the loop's test sessions_.count(id).
connect(id, peer) ==
  /\ id \in Ids \ issued
  /\ issued' = issued \cup {id}
  /\ sessions' = [i \in DOMAIN sessions \cup {id} |->
                    IF i = id THEN [peer |-> peer, lastHeartbeat |-> clock]
                              ELSE sessions[i]]

\* The body that heartbeat and requireActiveBusinessCall share.
RenewOrRefuse(id, peer, status) ==
  \/ /\ id \notin DOMAIN sessions
     /\ status = "FAILED_PRECONDITION"
     /\ UNCHANGED sessions
  \/ /\ id \in DOMAIN sessions
     /\ sessions[id].peer # peer
     /\ status = "PERMISSION_DENIED"
     /\ UNCHANGED sessions
  \/ /\ id \in DOMAIN sessions
     /\ sessions[id].peer = peer
     /\ ExpiredAt(id, clock)
     /\ status = "FAILED_PRECONDITION"
     /\ Erase({id})
  \/ /\ id \in DOMAIN sessions
     /\ sessions[id].peer = peer
     /\ ~ExpiredAt(id, clock)
     /\ status = "OK"
     /\ sessions' = [sessions EXCEPT ![id].lastHeartbeat = clock]

\* A heartbeat that checks the lease and forgets to restart it.
heartbeat_NoRenewal(id, peer, status) ==
  /\ status = IF id \notin DOMAIN sessions \/ ExpiredAt(id, clock)
              THEN "FAILED_PRECONDITION" ELSE "OK"
  /\ UNCHANGED sessions

heartbeat(id, peer, status) == RenewOrRefuse(id, peer, status)

\* A business call that renews whatever it finds, however old.
requireActiveBusinessCall_RevivesExpired(id, peer, status) ==
  /\ status = IF id \notin DOMAIN sessions
              THEN "FAILED_PRECONDITION" ELSE "OK"
  /\ sessions' = IF id \in DOMAIN sessions
                 THEN [sessions EXCEPT ![id].lastHeartbeat = clock]
                 ELSE sessions

\* sessions_[id] where find was meant: an unknown id gets a blank record.
requireActiveBusinessCall_Inserts(id, peer, status) ==
  /\ status = "OK"
  /\ sessions' = [i \in DOMAIN sessions \cup {id} |->
                    IF i \in DOMAIN sessions THEN sessions[i]
                    ELSE [peer |-> "", lastHeartbeat |-> clock]]

requireActiveBusinessCall(id, peer, status) == RenewOrRefuse(id, peer, status)

disconnect(id, peer, status) ==
  \/ /\ id \notin DOMAIN sessions
     /\ status = "OK"
     /\ UNCHANGED sessions
  \/ /\ id \in DOMAIN sessions
     /\ sessions[id].peer # peer
     /\ status = "PERMISSION_DENIED"
     /\ UNCHANGED sessions
  \/ /\ id \in DOMAIN sessions
     /\ sessions[id].peer = peer
     /\ status = "OK"
     /\ Erase({id})

\* sweepExpiredForLogging, line 141: the clock is read without the mutex.
SweepReadClock ==
  /\ sweep.pc = "asleep"
  /\ sweep' = [pc |-> "locking", now |-> clock]
  /\ UNCHANGED <<clock, sessions, issued>>

\* A sweep that also drops the lease that ends at this very instant.
SweepErase_OffByOne ==
  /\ sweep.pc = "locking"
  /\ Erase({id \in DOMAIN sessions :
              sweep.now - sessions[id].lastHeartbeat >= Lease})
  /\ sweep' = SweepAsleep
  /\ UNCHANGED <<clock, issued>>

\* sweepExpiredForLogging, lines 142-152: the loop under the mutex, then sleep.
SweepErase ==
  /\ sweep.pc = "locking"
  /\ Erase({id \in DOMAIN sessions : ExpiredAt(id, sweep.now)})
  /\ sweep' = SweepAsleep
  /\ UNCHANGED <<clock, issued>>

RegistryTypeOK ==
  /\ clock \in Nat
  /\ issued \subseteq Ids
  /\ DOMAIN sessions \subseteq issued
  /\ sessions \in [DOMAIN sessions -> Record]
  /\ sweep \in [pc : {"asleep", "locking"}, now : Nat]

=============================================================================
