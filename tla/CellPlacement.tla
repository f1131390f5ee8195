--------------------------- MODULE CellPlacement ---------------------------
(***************************************************************************)
(* Cells and the placement of organizations on them: CellPlacementService  *)
(* (register, retire, mutate), PlacementResolver and PlacementAdmission,   *)
(* with the triggers of the cell_placement_authority migration.            *)
(*                                                                         *)
(* A worker resolves a snapshot in one transaction and admits it in a      *)
(* later one, which keeps the shared lock on cell and placement rows until *)
(* it commits; a mutation takes those rows exclusively.                    *)
(***************************************************************************)
EXTENDS Integers, FiniteSets, Common

CONSTANTS Cells, Orgs,
          CellWorkers,    \* executions that need a placement
          ControlKeys,    \* idempotency keys of control requests
          MaxGeneration,  \* generations of one assignment
          MaxWork         \* executions a worker starts

VARIABLES cells,       \* cells
          placements,  \* organization_placements
          controls,    \* cell_control_history and placement_mutations, by operation and key
          cworker,     \* what each execution is doing
          works,       \* executions started
          worked       \* commits: <<org, generation at commit, generation admitted>>

cellVars == <<cells, placements, controls, cworker, works, worked>>

CellRow == [state : {"absent", "REGISTERED", "RETIRED"}, bound : BOOLEAN]
PlacementRow == [state : {"none", "ACTIVE", "SUSPENDED"}, cell : Cells \cup {None},
                 generation : 0..MaxGeneration]
NoPlacement == [state |-> "none", cell |-> None, generation |-> 0]
ControlOps == {"REGISTER", "RETIRE", "ASSIGN", "SUSPEND", "RESUME"}

IdleWorker == [at |-> "idle", org |-> None, snap |-> NoPlacement]

CellsInit ==
  /\ cells = [c \in Cells |-> [state |-> "absent", bound |-> FALSE]]
  /\ placements = [o \in Orgs |-> NoPlacement]
  /\ controls = {}
  /\ cworker = [w \in CellWorkers |-> IdleWorker]
  /\ works = 0 /\ worked = {}

\* The receipt of an operation and key; the same key for something else is refused.
Receipt(op, k) == {r \in controls : r.op = op /\ r.key = k}
FreshKey(op, k) == Receipt(op, k) = {}
\* The keys of placement mutations are the organization's own.
FreshMutation(o, op, k) == \A r \in Receipt(op, k) : r.what # o
Record(op, k, what) == controls' = controls \cup {[op |-> op, key |-> k, what |-> what]}

\* Rows a transaction in flight holds shared: the admitted cell and placement, or
\* the organization.
HeldOrg(o) == \E w \in CellWorkers : cworker[w].at = "admitted" /\ cworker[w].org = o
HeldCell(c) == \E w \in CellWorkers : cworker[w].at = "admitted" /\ cworker[w].snap.cell = c

-----------------------------------------------------------------------------
RegisterCell(c, k) ==
  /\ FreshKey("REGISTER", k) /\ cells[c].state = "absent"
  /\ cells' = [cells EXCEPT ![c].state = "REGISTERED"]
  /\ Record("REGISTER", k, c)
  /\ UNCHANGED <<placements, cworker, works, worked>>

\* retire: a cell that ever held a placement stays (has_placements never clears).
RetireCell(c, k) ==
  /\ FreshKey("RETIRE", k) /\ ~HeldCell(c)
  /\ cells[c].state = "REGISTERED" /\ ~cells[c].bound
  /\ cells' = [cells EXCEPT ![c].state = "RETIRED"]
  /\ Record("RETIRE", k, c)
  /\ UNCHANGED <<placements, cworker, works, worked>>

\* nxs_placement_fence on insert: the first generation, and the cell is bound.
Assign(o, c, k) ==
  /\ FreshMutation(o, "ASSIGN", k) /\ ~HeldCell(c) /\ ~HeldOrg(o)
  /\ cells[c].state = "REGISTERED" /\ placements[o] = NoPlacement
  /\ placements' = [placements EXCEPT ![o] = [state |-> "ACTIVE", cell |-> c, generation |-> 1]]
  /\ cells' = [cells EXCEPT ![c].bound = TRUE]
  /\ Record("ASSIGN", k, o)
  /\ UNCHANGED <<cworker, works, worked>>

Bug_Toggle(o, op, k, expected) ==
  /\ FreshMutation(o, op, k)
  /\ placements[o].state = IF op = "SUSPEND" THEN "ACTIVE" ELSE "SUSPENDED"
  /\ placements[o].generation = expected /\ expected < MaxGeneration
  /\ placements' = [placements EXCEPT ![o].generation = @ + 1,
                      ![o].state = IF op = "SUSPEND" THEN "SUSPENDED" ELSE "ACTIVE"]
  /\ Record(op, k, o)
  /\ UNCHANGED <<cells, cworker, works, worked>>

\* SUSPEND and RESUME compare the generation the caller saw and advance it by one.
Toggle(o, op, k, expected) ==
  /\ FreshMutation(o, op, k) /\ ~HeldOrg(o) /\ ~HeldCell(placements[o].cell)
  /\ placements[o].state = IF op = "SUSPEND" THEN "ACTIVE" ELSE "SUSPENDED"
  /\ placements[o].generation = expected /\ expected < MaxGeneration
  /\ cells[placements[o].cell].state = "REGISTERED"
  /\ placements' = [placements EXCEPT ![o].generation = @ + 1,
                      ![o].state = IF op = "SUSPEND" THEN "SUSPENDED" ELSE "ACTIVE"]
  /\ Record(op, k, o)
  /\ UNCHANGED <<cells, cworker, works, worked>>

-----------------------------------------------------------------------------
\* PlacementResolver.resolve: a snapshot, no authority.
Resolve(w, o) ==
  /\ cworker[w].at = "idle" /\ works < MaxWork
  /\ placements[o].state # "none" /\ cells[placements[o].cell].state = "REGISTERED"
  /\ works' = works + 1
  /\ cworker' = [cworker EXCEPT ![w] = [at |-> "resolved", org |-> o, snap |-> placements[o]]]
  /\ UNCHANGED <<cells, placements, controls, worked>>

Admissible(snap, o, home) ==
  /\ snap.cell = home /\ cells[home].state = "REGISTERED"
  /\ placements[o] = snap /\ snap.state = "ACTIVE"

\* admit, in a process that serves the cell home: shared locks first, then the
\* comparison with the snapshot.
Admit(w, home) ==
  /\ cworker[w].at = "resolved"
  /\ cworker' = IF Admissible(cworker[w].snap, cworker[w].org, home)
                  THEN [cworker EXCEPT ![w].at = "admitted"]
                  ELSE [cworker EXCEPT ![w] = IdleWorker]
  /\ UNCHANGED <<cells, placements, controls, works, worked>>

\* A process without a cell serves organizations that are not placed, and holds
\* the organization shared against their first assignment.
AdmitUnplaced(w, o) ==
  /\ cworker[w].at = "idle" /\ works < MaxWork
  /\ placements[o] = NoPlacement
  /\ works' = works + 1
  /\ cworker' = [cworker EXCEPT ![w] = [at |-> "admitted", org |-> o, snap |-> NoPlacement]]
  /\ UNCHANGED <<cells, placements, controls, worked>>

\* The protected transaction commits, or is rolled back.
FinishWork(w) ==
  /\ cworker[w].at = "admitted"
  /\ LET o == cworker[w].org IN
     \/ worked' = worked \cup {[org |-> o, at |-> placements[o], admitted |-> cworker[w].snap]}
     \/ UNCHANGED worked
  /\ cworker' = [cworker EXCEPT ![w] = IdleWorker]
  /\ UNCHANGED <<cells, placements, controls, works>>

CellsNext ==
  \/ \E c \in Cells, k \in ControlKeys :
       \/ RegisterCell(c, k) \/ RetireCell(c, k)
       \/ \E o \in Orgs : Assign(o, c, k)
  \/ \E o \in Orgs, op \in {"SUSPEND", "RESUME"}, k \in ControlKeys, g \in 1..MaxGeneration :
       Toggle(o, op, k, g)
  \/ \E w \in CellWorkers :
       \/ \E o \in Orgs : Resolve(w, o) \/ AdmitUnplaced(w, o)
       \/ \E home \in Cells : Admit(w, home)
       \/ FinishWork(w)

CellsSpec == CellsInit /\ [][CellsNext]_cellVars

-----------------------------------------------------------------------------
\* Work commits only while its organization is still placed as it was when the
\* work was admitted, or still not placed: no suspension and no first assignment,
\* however it interleaves, falls between the admission check and the commit
\* (shared against exclusive row locks).
WorkIsPlaced ==
  \A x \in worked : x.at = x.admitted /\ x.at.state \in {"ACTIVE", "none"}

\* A placement always has a live cell under it: retirement and assignment can
\* race, and has_placements decides (retirement_unbound, nxs_placement_fence).
PlacedCellLives ==
  \A o \in Orgs : placements[o].state # "none" => cells[placements[o].cell].state = "REGISTERED"

\* What the tables demand of the rows, beyond the service's own checks: a cell
\* retires unbound; a placement names a cell and has a first generation; the
\* history and the mutations name rows that exist and are never changed; a cell
\* never forgets that it was used, a placement never moves to another cell.
CellsTypeOK ==
  /\ cells \in [Cells -> CellRow] /\ placements \in [Orgs -> PlacementRow]
  /\ \A r \in controls : r.op \in ControlOps /\ r.key \in ControlKeys
RetirementUnbound == \A c \in Cells : ~(cells[c].state = "RETIRED" /\ cells[c].bound)
PlacementRefers ==
  \A o \in Orgs : placements[o] # NoPlacement =>
    /\ placements[o].generation >= 1 /\ placements[o].cell # None
    /\ cells[placements[o].cell].bound
HistoryRefers ==
  \A r \in controls : r.op \in {"REGISTER", "RETIRE"} =>
    /\ cells[r.what].state # "absent"
    /\ Receipt(r.op, r.key) = {r}
MutationRefers ==
  \A r \in controls : r.op \notin {"REGISTER", "RETIRE"} => placements[r.what] # NoPlacement
CatalogFence ==
  \A c \in Cells :
    /\ cells[c].bound => cells'[c].bound
    /\ cells[c].state = "RETIRED" => cells'[c].state = "RETIRED"
PlacementFence ==
  \A o \in Orgs : placements'[o] # placements[o] =>
    IF placements[o] = NoPlacement
    THEN placements'[o].state = "ACTIVE" /\ placements'[o].generation = 1
    ELSE /\ placements'[o].cell = placements[o].cell
         /\ placements'[o].state # placements[o].state
         /\ placements'[o].generation = placements[o].generation + 1
HistoryKept == controls \subseteq controls'

\* Placement is an authority: work runs where its organization is placed, an
\* organization is placed where a cell lives, and the rows stay lawful.
PlacementHolds ==
  /\ [](CellsTypeOK /\ WorkIsPlaced /\ PlacedCellLives /\ RetirementUnbound /\ PlacementRefers
         /\ HistoryRefers /\ MutationRefers)
  /\ [][CatalogFence /\ PlacementFence /\ HistoryKept]_cellVars
============================================================================
