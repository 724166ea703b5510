----------------------------- MODULE BoardWeights -----------------------------
(***************************************************************************)
(* The business weights of the dashboard: the module variable              *)
(* _current_weights (routes.py), three routes on it, and the row in        *)
(* axon_board.business_weights.                                            *)
(*                                                                         *)
(* The routes that change the weights never reach the row: BusinessWeights *)
(* is a dataclass without model_dump, so the save ends in a suppressed     *)
(* AttributeError before anything is sent or awaited.  The planning cycle  *)
(* does not read these weights; its own come with the request.             *)
(***************************************************************************)
CONSTANTS
    Fields,   \* cost, delivery, quality, ...
    Puttable, \* bound: values clients put
    Default,  \* a field's default in BusinessWeights()
    RowValue, \* a field's value in the seeded row
    Readers,  \* concurrent GET /weights
    NoPut     \* no value

WeightValues == Puttable \cup {Default, RowValue}

ASSUME WeightsAssumption == NoPut \notin WeightValues

VARIABLES
    current_weights,
    row,     \* the seeded row is in the table
    reading, \* readers that have the row and wait for their turn
    base,    \* history: the weights last read, reset or started with
    puts     \* history: the last value put for each field since then

weights_vars == <<current_weights, row, reading, base, puts>>

All(value) == [f \in Fields |-> value]

WeightsTypeOK ==
    /\ current_weights \in [Fields -> WeightValues]
    /\ row \in BOOLEAN
    /\ reading \subseteq Readers
    /\ base \in {Default, RowValue}
    /\ puts \in [Fields -> Puttable \cup {NoPut}]

Replace(value) ==
    /\ current_weights' = All(value)
    /\ base' = value
    /\ puts' = All(NoPut)

-----------------------------------------------------------------------------
(* get_weights *)

(* The SELECT finds the row; without one, or when it fails, the answer is  *)
(* the weights in memory, and nothing changes.                             *)
StartRead(r) ==
    /\ r \notin reading /\ row
    /\ reading' = reading \cup {r}
    /\ UNCHANGED <<current_weights, row, base, puts>>

EndRead(r) ==
    /\ r \in reading
    /\ Replace(RowValue)
    /\ reading' = reading \ {r}
    /\ UNCHANGED row

-----------------------------------------------------------------------------
(* update_weights and reset_weights, without an await before their return *)

OverDefaults(given) ==
    [f \in Fields |-> IF given[f] = NoPut THEN Default ELSE given[f]] \* mutant

GivenOnly(given) == given \* mutant

(* apply_to: a field the request leaves out stays. *)
Apply(given) ==
    [f \in Fields |-> IF given[f] = NoPut THEN current_weights[f] ELSE given[f]]

UpdateWeights(given) ==
    /\ current_weights' = Apply(given)
    /\ puts' = [f \in Fields |-> IF given[f] = NoPut THEN puts[f] ELSE given[f]]
    /\ UNCHANGED <<row, reading, base>>

ResetWeights == Replace(Default) /\ UNCHANGED <<row, reading>>

(* The environment: BOARD_SEED_SQL, and a restart of the dashboard. *)
SeedWeights ==
    /\ ~row /\ row' = TRUE
    /\ UNCHANGED <<current_weights, reading, base, puts>>

RestartDashboard ==
    /\ Replace(Default)
    /\ reading' = {}
    /\ UNCHANGED row

WeightsInit ==
    /\ current_weights = All(Default) /\ base = Default /\ puts = All(NoPut)
    /\ row = FALSE /\ reading = {}

WeightsNext ==
    \/ \E r \in Readers : StartRead(r) \/ EndRead(r)
    \/ \E given \in [Fields -> Puttable \cup {NoPut}] : UpdateWeights(given)
    \/ ResetWeights \/ SeedWeights \/ RestartDashboard

WeightsSpec == WeightsInit /\ [][WeightsNext]_weights_vars

-----------------------------------------------------------------------------
(* Properties *)

(***************************************************************************)
(* Partial updates add up: a field has the value last put for it since the *)
(* weights were last read, reset or started, whatever requests on other    *)
(* fields came in between and however old a reader's row was.  That a read *)
(* takes the updates back is what the code does (get_weights, 142-150,     *)
(* update_weights, 153-164).                                               *)
(***************************************************************************)
UpdatesMergeUntilARead ==
    \A f \in Fields : current_weights[f] = IF puts[f] = NoPut THEN base ELSE puts[f]
=============================================================================
