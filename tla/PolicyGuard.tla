----------------------------- MODULE PolicyGuard -----------------------------
(***************************************************************************)
(* The two-principal policy around the coordinator: a ledger of working    *)
(* memory and requests that connections reserve from, and a guard that     *)
(* the coordinator calls back while it stages a batch, which keeps the     *)
(* batch inside its principal's write region and retained-memory limit,    *)
(* and moves its private sponsorship of the slots into the ledger together *)
(* with the coordinator's swap.                                            *)
(* Source: src/src/policy.cpp, src/include/omniweft/policy.hpp, called     *)
(* from src/src/transactions.cpp and, for the leases, src/src/control.cpp. *)
(*                                                                         *)
(* Composes with Coordinator: each guarded operation is the coordinator's  *)
(* together with the guard's callback.  A cube's oriented bounds are its   *)
(* position, which is inside some principal's region or in none; the       *)
(* origin, where a created cube stands until it is placed, is in none.     *)
(* The ledger's mutex is held while a batch is staged, so that leases      *)
(* change between batches only.                                            *)
(***************************************************************************)
EXTENDS Coordinator

CONSTANTS
  Principals,
  Holders,         \* connections, each with at most one lease
  Bodies,          \* content lengths a request may declare
  Base,            \* working_charge(0)
  WorkingLimit,    \* Grant::working_limit, by principal
  RetainedLimit,   \* Grant::retained_limit, by principal
  Region,          \* positions whose bounds fit a principal's write region
  Skeleton, Cube,  \* skeleton_charge, cube_charge
  GlobalLimit,     \* Ledger::global_limit_
  None

ASSUME PolicyAssumption ==
  /\ Bodies \subseteq Nat /\ Base \in Nat
  /\ WorkingLimit \in [Principals -> Nat] /\ RetainedLimit \in [Principals -> Nat]
  /\ Region \in [Principals -> SUBSET (1 .. M - 1)]
  /\ \A p, q \in Principals : p # q => Region[p] \cap Region[q] = {}
  /\ Skeleton \in Nat /\ Cube \in Nat
  /\ GlobalLimit \in Nat
  /\ IsFiniteSet(Principals) /\ IsFiniteSet(Holders)
  /\ None \notin Principals \cup Holders

VARIABLES
  leases,    \* each connection's Lease, or NoLease
  usage,     \* Ledger::usage_
  sponsors,  \* Ledger::sponsors_: who a slot is charged to, or None
  live,      \* Ledger::live_
  guard      \* the Guard of the batch being staged, or NoGuard

ledger == <<usage, sponsors, live>>
policyVars == <<vars, leases, ledger, guard>>

NoLease == [principal |-> None, bytes |-> 0, claimed |-> FALSE]
NoGuard == [holder |-> None]
NoUse == [p \in Principals |-> 0]

PolicyInit ==
  /\ Init
  /\ leases = [h \in Holders |-> NoLease]
  /\ usage = [working |-> NoUse, requests |-> NoUse, retained |-> NoUse,
              global_requests |-> 0, world_revision |-> 0]
  /\ sponsors = [s \in Slots |-> None]
  /\ live = [s \in Slots |-> FALSE]
  /\ guard = NoGuard

Charge(bytes) == Base + bytes

\* What each principal's slots cost it: every slot it sponsors, alive or not.
Retained(by, alive) ==
  [p \in Principals |->
     Skeleton * Cardinality({s \in Slots : by[s] = p})
       + Cube * Cardinality({s \in Slots : by[s] = p /\ alive[s]})]

-----------------------------------------------------------------------------
(* Leases, from the connections' threads                                   *)

\* Mutated form of Admit: the temporary the lease is moved from refunds as well.
AdmitRefundingTemporary(h, p, bytes) ==
  /\ ~staging /\ leases[h] = NoLease
  /\ usage.requests[p] < 1 /\ usage.global_requests < GlobalLimit
  /\ Charge(bytes) <= WorkingLimit[p] - usage.working[p]
  /\ leases' = [leases EXCEPT ![h] = [principal |-> p, bytes |-> bytes, claimed |-> FALSE]]
  /\ UNCHANGED <<vars, ledger, guard>>

\* Ledger::admit; its result moves into the connection.
Admit(h, p, bytes) ==
  /\ ~staging /\ leases[h] = NoLease
  /\ usage.requests[p] < 1 /\ usage.global_requests < GlobalLimit
  /\ Charge(bytes) <= WorkingLimit[p] - usage.working[p]
  /\ leases' = [leases EXCEPT ![h] = [principal |-> p, bytes |-> bytes, claimed |-> FALSE]]
  /\ usage' = [usage EXCEPT !.working[p] = @ + Charge(bytes), !.requests[p] = @ + 1,
                            !.global_requests = @ + 1]
  /\ UNCHANGED <<vars, sponsors, live, guard>>

\* The lease is destroyed, whichever way its connection ends.
Refund(h) ==
  LET p == leases[h].principal
  IN /\ ~staging /\ leases[h] # NoLease
     /\ leases' = [leases EXCEPT ![h] = NoLease]
     /\ usage' = [usage EXCEPT !.working[p] = @ - Charge(leases[h].bytes),
                               !.requests[p] = @ - 1, !.global_requests = @ - 1]
     /\ UNCHANGED <<vars, sponsors, live, guard>>

-----------------------------------------------------------------------------
(* The guard, on the thread that owns the World                            *)

Agreement ==
  /\ usage.world_revision = world.world_revision
  /\ \A s \in Slots : /\ sponsors[s] # None <=> Appended(world, s)
                      /\ live[s] <=> world.slots[s].live

\* The guard or the coordinator refuses the batch before it is staged: fields
\* beyond the reservation, a stale revision, or a ledger of another World.
RefuseBatch(h) ==
  /\ ~staging /\ leases[h] # NoLease /\ ~leases[h].claimed
  /\ leases' = [leases EXCEPT ![h].claimed = TRUE]
  /\ UNCHANGED <<vars, ledger, guard>>

BeginBatch(h) ==
  /\ leases[h] # NoLease /\ ~leases[h].claimed
  /\ Agreement
  /\ Begin(world.world_revision)
  /\ leases' = [leases EXCEPT ![h].claimed = TRUE]
  /\ guard' = [holder |-> h, sponsors |-> sponsors, live |-> live,
               unplaced |-> [s \in Slots |-> FALSE], retained |-> usage.retained]
  /\ UNCHANGED ledger

Writer == leases[guard.holder].principal

InScope(transform) == transform.position \in Region[Writer]

\* account: the guard's copy after a create or a delete, when it is affordable.
Account(g) ==
  /\ \A p \in Principals : Retained(g.sponsors, g.live)[p] <= RetainedLimit[p]
  /\ guard' = [g EXCEPT !.retained = Retained(g.sponsors, g.live)]

GuardedCreate(name) ==
  /\ Create(name)
  /\ LET s == names'[name].slot
     IN Account([guard EXCEPT !.sponsors[s] = Writer, !.live[s] = TRUE,
                              !.unplaced[s] = TRUE])
  /\ UNCHANGED <<leases, ledger>>

\* Mutated form of GuardedTransform: only the new place is checked.
GuardedTransformAfterOnly(target, replacement) ==
  LET s == Denotes(target).slot
  IN /\ SetTransform(target, replacement)
     /\ InScope(replacement)
     /\ guard' = [guard EXCEPT !.unplaced[s] = FALSE]
     /\ UNCHANGED <<leases, ledger>>

GuardedTransform(target, replacement) ==
  LET s == Denotes(target).slot
  IN /\ SetTransform(target, replacement)
     /\ guard.unplaced[s] \/ InScope(staged.slots[s].transform)
     /\ InScope(replacement)
     /\ guard' = [guard EXCEPT !.unplaced[s] = FALSE]
     /\ UNCHANGED <<leases, ledger>>

\* Mutated forms of GuardedDelete: the cube's place is not checked; the slot's
\* sponsor is released with its cube.
GuardedDeleteAnywhere(target) ==
  LET s == Denotes(target).slot
  IN /\ Delete(target)
     /\ Account([guard EXCEPT !.live[s] = FALSE, !.unplaced[s] = FALSE])
     /\ UNCHANGED <<leases, ledger>>

GuardedDeleteReleasing(target) ==
  LET s == Denotes(target).slot
  IN /\ Delete(target)
     /\ guard.unplaced[s] \/ InScope(staged.slots[s].transform)
     /\ Account([guard EXCEPT !.live[s] = FALSE, !.unplaced[s] = FALSE, !.sponsors[s] = None])
     /\ UNCHANGED <<leases, ledger>>

GuardedDelete(target) ==
  LET s == Denotes(target).slot
  IN /\ Delete(target)
     /\ guard.unplaced[s] \/ InScope(staged.slots[s].transform)
     /\ Account([guard EXCEPT !.live[s] = FALSE, !.unplaced[s] = FALSE])
     /\ UNCHANGED <<leases, ledger>>

\* finish, the coordinator's swap, commit, and the end of the guard.
GuardedCommit ==
  /\ Commit
  /\ \A s \in Slots : ~guard.unplaced[s]
  /\ sponsors' = guard.sponsors /\ live' = guard.live
  /\ usage' = [usage EXCEPT !.retained = guard.retained, !.world_revision = @ + 1]
  /\ guard' = NoGuard
  /\ UNCHANGED leases

\* An operation, the guard or the observer refused: the guard's copies go too.
GuardedReject ==
  /\ Reject
  /\ guard' = NoGuard
  /\ UNCHANGED <<leases, ledger>>

PolicyNext ==
  \/ \E h \in Holders : \/ \E p \in Principals, bytes \in Bodies : Admit(h, p, bytes)
                        \/ Refund(h) \/ RefuseBatch(h) \/ BeginBatch(h)
  \/ \E name \in TempNames : GuardedCreate(name)
  \/ \E t \in Targets, v \in Transforms : v.uniform /\ GuardedTransform(t, v)
  \/ \E t \in Targets : GuardedDelete(t)
  \/ GuardedCommit \/ GuardedReject

PolicySpec == PolicyInit /\ [][PolicyNext]_policyVars

-----------------------------------------------------------------------------

(***************************************************************************)
(* The counters of the ledger are those of the leases alive: each one is   *)
(* reserved once and refunded once, however its connection ends, and the   *)
(* limits hold.                                                            *)
(***************************************************************************)
BooksBalance ==
  /\ usage.global_requests = Cardinality({h \in Holders : leases[h] # NoLease})
  /\ usage.global_requests <= GlobalLimit
  /\ \A p \in Principals :
       LET own == {h \in Holders : leases[h].principal = p}
       IN /\ usage.requests[p] = Cardinality(own) /\ usage.requests[p] <= 1
          /\ own = {} => usage.working[p] = 0
          /\ \A h \in own : usage.working[p] = Charge(leases[h].bytes)
          /\ usage.working[p] <= WorkingLimit[p]

(***************************************************************************)
(* The ledger describes the World: revision, used slots and live cubes     *)
(* agree, and each principal is charged exactly for the slots it sponsors, *)
(* within its limit.  So a guarded batch is never refused for a ledger out *)
(* of step, and a slot's sponsor survives deletion until it is reused.     *)
(***************************************************************************)
LedgerDescribesWorld ==
  /\ Agreement
  /\ usage.retained = Retained(sponsors, live)
  /\ \A p \in Principals : usage.retained[p] <= RetainedLimit[p]

(***************************************************************************)
(* Every live cube of the World stands in the write region of the          *)
(* principal that pays for it.                                             *)
(***************************************************************************)
CubesInRegion ==
  \A s \in Slots : world.slots[s].live =>
    world.slots[s].transform.position \in Region[sponsors[s]]

(***************************************************************************)
(* A commit of one principal leaves every live cube of another as it was.  *)
(***************************************************************************)
ForeignCubesUntouched ==
  [][\A s \in Slots :
       world.slots[s].live /\ world'.slots[s] # world.slots[s] => sponsors[s] = Writer]_policyVars
=============================================================================
