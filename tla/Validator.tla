------------------------------- MODULE Validator -------------------------------
(***************************************************************************)
(* Step 3: a script that constructs a Validator and calls validate()       *)
(* (migrationkit/validator.py).  It is a process of its own: it may run    *)
(* while the migration still does, be run again, or be run twice at once   *)
(* by an agent that gave up on the first.                                  *)
(*                                                                         *)
(* A verdict is 'match' or 'mismatch'; a count that raised makes it        *)
(* 'mismatch', and its text is left out.  The order of the tables is left  *)
(* open.                                                                   *)
(***************************************************************************)
EXTENDS Migrator

CONSTANTS
  Validations,       \* calls of validate()
  ValidationRun,     \* the run_id each Validator is constructed with
  Discovers,         \* the calls without a list of tables
  Asked,             \* the list of the others
  NamedTarget,       \* the target table that has the name of a source table
  SerialValidation   \* one call at a time for each run

ASSUME ValidatorAssumptions ==
  /\ ValidationRun \in [Validations -> Runs]
  /\ Discovers \subseteq Validations
  /\ Asked \in [Validations -> SUBSET Tables]
  /\ NamedTarget \in [Tables -> TargetTables]
  /\ SerialValidation \in BOOLEAN

VARIABLES
  check,    \* control location and local variables of each call
  author,   \* history: the call that wrote each row of validations
  latest    \* history: the last call that cleared the rows of each run

validatorVars == <<check, author, latest>>

CountPcs   == {"next", "target", "record", "sayRow"}
FinalPcs   == {"saySummary", "sayStep"}
CheckPcs   == {"clear"} \cup CountPcs \cup FinalPcs
NoVerdicts == [t \in Tables |-> "absent"]
Counts     == Nat \cup {Unknown}

CheckState ==
  [pc      : CheckPcs \cup {"new", "returned", "stopped"},
   todo    : SUBSET Tables,
   table   : Tables \cup {Unknown},
   source  : Counts,
   results : [Tables -> Verdicts \cup {"absent"}]]

ValidatorTypeOK ==
  /\ check  \in [Validations -> CheckState]
  /\ author \in [Runs -> [Tables -> Validations \cup {Unknown}]]
  /\ latest \in [Runs -> Validations \cup {Unknown}]

ValidatorInit ==
  /\ check = [v \in Validations |->
       [pc |-> "new", todo |-> {}, table |-> Unknown, source |-> Unknown,
        results |-> NoVerdicts]]
  /\ author = [r \in Runs |-> [t \in Tables |-> Unknown]]
  /\ latest = [r \in Runs |-> Unknown]

CheckAt(v, l) == check[v].pc = l
CheckGoto(v, l) == check' = [check EXCEPT ![v].pc = l]

-----------------------------------------------------------------------------
\* Mutant: every registered table.
Registered(r) == {t \in Tables : TableExists(r, t)}

DoneTables(r) == {t \in Tables : runTables[r][t].status = "done"}

\* _discover_tables, unless the caller names the tables.
TablesToCheck(v) ==
  IF v \in Discovers THEN DoneTables(ValidationRun[v]) ELSE Asked[v]

Discover(v) ==
  /\ CheckAt(v, "new")
  /\ SerialValidation =>
       \A o \in Validations : ValidationRun[o] = ValidationRun[v] =>
         check[o].pc \notin CheckPcs
  /\ check' = [check EXCEPT ![v].pc = "clear", ![v].todo = TablesToCheck(v)]
  /\ UNCHANGED <<storeVars, author, latest>>

\* Mutant: the rows of an earlier call are kept.
KeepVerdicts(v) ==
  /\ CheckAt(v, "clear")
  /\ latest' = [latest EXCEPT ![ValidationRun[v]] = v]
  /\ CheckGoto(v, "next")
  /\ UNCHANGED <<storeVars, author>>

ClearVerdicts(v) ==
  /\ CheckAt(v, "clear")
  /\ ClearValidations(ValidationRun[v])
  /\ latest' = [latest EXCEPT ![ValidationRun[v]] = v]
  /\ CheckGoto(v, "next")
  /\ UNCHANGED author

\* A count that raises is None.
CountSource(v) ==
  /\ CheckAt(v, "next")
  /\ \E t \in check[v].todo : \E rows \in {sourceRows[t], Unknown} :
       check' = [check EXCEPT ![v].pc = "target", ![v].table = t,
                              ![v].source = rows]
  /\ UNCHANGED <<storeVars, author, latest>>

\* Mutant: the counts are compared without looking for None.
SameCount(source, rows) == IF source = rows THEN "match" ELSE "mismatch"

Verdict(source, rows) ==
  IF source # Unknown /\ rows # Unknown /\ source = rows
  THEN "match" ELSE "mismatch"

\* The target is counted under the source's name of the table.
CountTarget(v) ==
  /\ CheckAt(v, "target")
  /\ LET t == check[v].table IN
     \E rows \in {target[NamedTarget[t]], Unknown} :
       check' = [check EXCEPT ![v].pc = "record",
                              ![v].results[t] = Verdict(check[v].source, rows)]
  /\ UNCHANGED <<storeVars, author, latest>>

\* Mutant: a row is written for a match only.
RecordMatch(v) ==
  /\ CheckAt(v, "record")
  /\ LET t == check[v].table IN
     IF check[v].results[t] = "match"
     THEN /\ RecordValidation(ValidationRun[v], t, "match")
          /\ author' = [author EXCEPT ![ValidationRun[v]][t] = v]
     ELSE UNCHANGED <<storeVars, author>>
  /\ CheckGoto(v, "sayRow")
  /\ UNCHANGED latest

RecordVerdict(v) ==
  /\ CheckAt(v, "record")
  /\ LET t == check[v].table IN
     /\ RecordValidation(ValidationRun[v], t, check[v].results[t])
     /\ author' = [author EXCEPT ![ValidationRun[v]][t] = v]
  /\ CheckGoto(v, "sayRow")
  /\ UNCHANGED latest

AnnounceVerdict(v) ==
  /\ CheckAt(v, "sayRow")
  /\ WriteEvent(ValidationRun[v],
                [kind |-> "validation_row", table |-> check[v].table])
  /\ check' = [check EXCEPT ![v].pc = "next", ![v].todo = @ \ {check[v].table},
                            ![v].table = Unknown, ![v].source = Unknown]
  /\ UNCHANGED <<author, latest>>

AllChecked(v) ==
  /\ CheckAt(v, "next")
  /\ check[v].todo = {}
  /\ CheckGoto(v, "saySummary")
  /\ UNCHANGED <<storeVars, author, latest>>

AnnounceSummary(v) ==
  /\ CheckAt(v, "saySummary")
  /\ WriteEvent(ValidationRun[v], [kind |-> "validation_done"])
  /\ CheckGoto(v, "sayStep")
  /\ UNCHANGED <<author, latest>>

AnnounceStep(v) ==
  /\ CheckAt(v, "sayStep")
  /\ WriteEvent(ValidationRun[v], [kind |-> "step_validated"])
  /\ CheckGoto(v, "returned")
  /\ UNCHANGED <<author, latest>>

\* A transaction raises (the run is gone, the database is locked) or the
\* process is killed: validate() has no handler.
StopValidation(v) ==
  /\ check[v].pc \in CheckPcs
  /\ CheckGoto(v, "stopped")
  /\ UNCHANGED <<storeVars, author, latest>>

Validate(v) ==
  \/ ClearVerdicts(v) \/ CountSource(v) \/ CountTarget(v) \/ RecordVerdict(v)
  \/ AnnounceVerdict(v) \/ AllChecked(v) \/ AnnounceSummary(v) \/ AnnounceStep(v)

ValidatorNext ==
  \E v \in Validations : Discover(v) \/ Validate(v) \/ StopValidation(v)
=============================================================================
