--------------------------- MODULE ValidationSystem ---------------------------
(***************************************************************************)
(* Validations beside the migration scripts and the control API: they read *)
(* the tables that a script completes, the row counts that it changes, and *)
(* write rows that a delete takes away.                                    *)
(***************************************************************************)
EXTENDS MigrationSystem, Validator

systemVars == <<vars, validatorVars>>

SystemInit == Init /\ ValidatorInit

SystemNext ==
  \/ Next /\ UNCHANGED validatorVars
  \/ ValidatorNext /\ UNCHANGED <<migratorVars, apiVars>>

SystemSpec == SystemInit /\ [][SystemNext]_systemVars

\* Types of the whole.
SystemTypeOK == TypeOK /\ ValidatorTypeOK

-----------------------------------------------------------------------------
\* validator.py:87-89 "a re-run starts clean - partner re-running step 3 after
\* fixing a target table sees only the new results, not a mix": every verdict
\* of a run was written by the call that cleared its rows last.
VerdictsOfOneCall ==
  \A r \in Runs, t \in Tables :
    validations[r][t] # "absent" => author[r][t] = latest[r]

\* The summary a call announces is the one its rows in the database give, if
\* its run has not been deleted.
SummaryMatchesRows ==
  \A v \in Validations : check[v].pc \in FinalPcs =>
    \/ validations[ValidationRun[v]] = check[v].results
    \/ ~RunExists(ValidationRun[v])

\* A call that discovers its tables judges no table that is not done, though
\* the script goes on between its discovery and its counts.
JudgesDoneTables ==
  \A r \in Runs, t \in Tables :
    validations[r][t] # "absent" /\ author[r][t] \in Discovers =>
      runTables[r][t].status = "done"

\* With targets that were empty and one script for each target, a 'match' is
\* never given to a table that still misses rows the source had at the start.
MatchMeansLanded ==
  \A r \in Runs, t \in Tables :
    validations[r][t] = "match" => landed[r][t] >= InitialRows[t]

-----------------------------------------------------------------------------
(* Why they hold *)

\* A call at work on a table has it on its list, and has no verdict before it
\* has cleared the rows.
ChecksOK ==
  \A v \in Validations :
    /\ check[v].pc \in {"target", "record", "sayRow"} => check[v].table \in check[v].todo
    /\ check[v].pc \in {"new", "clear"} => check[v].results = NoVerdicts

\* One call at a time for a run, which has cleared the rows once it counts.
OneCallPerRun ==
  \A v \in Validations : check[v].pc \in CheckPcs =>
    \A o \in Validations :
      check[o].pc \in CheckPcs /\ ValidationRun[o] = ValidationRun[v] => o = v

ClearedByItself ==
  \A v \in Validations :
    check[v].pc \in CountPcs \cup FinalPcs => latest[ValidationRun[v]] = v

\* The run has been deleted: it is not there, and no script will create it.
Gone(r) ==
  /\ ~RunExists(r)
  /\ \A s \in Scripts : RunOf[s] = r => script[s].pc \notin {"new", "refused", "insert"}

\* The rows of a run that is not gone are the verdicts of the call, but for the one
\* in hand.
RowsAreResults ==
  \A v \in Validations : check[v].pc \in CountPcs \cup FinalPcs =>
    \/ Gone(ValidationRun[v])
    \/ \A t \in Tables :
         \/ CheckAt(v, "record") /\ t = check[v].table
         \/ validations[ValidationRun[v]][t] = check[v].results[t]

\* What a call has discovered stays done.
DiscoveredStayDone ==
  \A v \in Discovers : check[v].pc \in CheckPcs =>
    \/ Gone(ValidationRun[v])
    \/ check[v].todo \subseteq DoneTables(ValidationRun[v])

\* A script of the run moves the table.
Migrates(r, t) ==
  \E s \in Scripts : RunOf[s] = r /\ \E i \in DOMAIN Plan[s] : Plan[s][i].table = t

\* What MatchMeansLanded supposes of the targets: they were empty, have the
\* names of their source tables, and are those of one run each; and a caller that
\* names tables names some of its run.
OwnTargets ==
  /\ \A k \in TargetTables : Preloaded[k] = 0
  /\ \A s \in Scripts : \A i \in DOMAIN Plan[s] : \A t \in Tables :
       Plan[s][i].target = NamedTarget[t] <=> Plan[s][i].table = t
  /\ \A s, o \in Scripts : \A i \in DOMAIN Plan[s], j \in DOMAIN Plan[o] :
       Plan[s][i].target = Plan[o][j].target => RunOf[s] = RunOf[o]
  /\ \A v \in Validations : \A t \in Asked[v] : Migrates(ValidationRun[v], t)

\* What the counts rely on: the source only grows, only planned tables have a row,
\* and the target of a planned table holds no more than its run has landed.
SourceGrows == \A t \in Tables : sourceRows[t] >= InitialRows[t]

OnlyPlanned == \A r \in Runs, t \in Tables : TableExists(r, t) => Migrates(r, t)

TargetIsLanded ==
  \A r \in Runs, t \in Tables : Migrates(r, t) => target[NamedTarget[t]] <= landed[r][t]

\* A count of the source in hand is never too small; so a match in hand is what it
\* says.
MatchInHandMeansLanded ==
  \A v \in Validations :
    /\ \A t \in check[v].todo : Migrates(ValidationRun[v], t)
    /\ CheckAt(v, "target") =>
         check[v].source = Unknown \/ check[v].source >= InitialRows[check[v].table]
    /\ \A t \in Tables : check[v].results[t] = "match" =>
         landed[ValidationRun[v]][t] >= InitialRows[t]

CountsAreSafe == SourceGrows /\ OnlyPlanned /\ TargetIsLanded /\ MatchInHandMeansLanded
=============================================================================
