--------------------------- MODULE SharedConnection -------------------------
(***************************************************************************)
(* The one PgDatabase connection of the application and the threads that   *)
(* use it.  execute and executeParams hold a mutex for one statement, not  *)
(* for a transaction: BEGIN, the statements and COMMIT of one thread are   *)
(* separate steps, between which any other thread's statement runs in the  *)
(* same session.                                                           *)
(*                                                                         *)
(* The session is PostgreSQL's, an external part: a BEGIN inside a         *)
(* transaction is a warning; a statement that fails aborts the             *)
(* transaction it is in, after which every statement but ROLLBACK and      *)
(* COMMIT fails; COMMIT of an aborted transaction rolls back and reports   *)
(* success; a lost connection takes the open transaction with it and is    *)
(* not made again.  It may be lost after the server has executed a         *)
(* statement and before its answer arrives: the statement has taken effect *)
(* and the caller sees an error.  The schema has no deferred constraints,  *)
(* so that COMMIT fails in no other way.                                   *)
(*                                                                         *)
(* Before the threads start, MigrationRunner::applyAll uses the connection *)
(* alone; the process may die at any of its steps and start again.         *)
(***************************************************************************)
EXTENDS Integers, Sequences, FiniteSets

CONSTANTS
    Savers,     \* threads that run DurablePredictionTx::persistPrediction
    Others,     \* threads that run single statements: outcomes, outbox marks,
                \* leases, batches, retention
    Files,      \* number of migration files, in their order
    MaxFaults   \* bound: failed statements, lost connections, crashes

Rows == {"prediction", "claim", "outbox"}
Parts == 1 .. 2  \* statements of a migration file; part 3 is its record
Record == 3

VARIABLES
    alive,      \* the connection
    inTx, aborted, pending, \* the session's transaction
    stored,     \* what is committed
    saver,      \* by saver: the next thing it does
    begun,      \* savers whose transaction has begun
    clean,      \* history: savers not interrupted by another thread so far
    durable,    \* history: savers that were told their commit succeeded
    doubt,      \* history: savers whose COMMIT was executed and its answer lost
    file, part, \* where applyAll is; 0 when it has not begun
    booted,     \* applyAll has succeeded, and the threads run
    embedded,   \* there is no migrations directory: the schema of the program is used
    faults

session == <<alive, inTx, aborted, pending, stored>>
savers == <<saver, begun, clean, durable, doubt>>
migration == <<file, part, booted, embedded>>
vars == <<session, savers, migration, faults>>

Init ==
    /\ alive = TRUE /\ inTx = FALSE /\ aborted = FALSE /\ pending = {} /\ stored = {}
    /\ saver = [s \in Savers |-> "idle"] /\ begun = {} /\ clean = {} /\ durable = {} /\ doubt = {}
    /\ file = 1 /\ part = 0 /\ booted = FALSE /\ embedded \in BOOLEAN /\ faults = 0

-----------------------------------------------------------------------------

\* A statement that writes row succeeds, in the transaction or by itself ...
Works(row) ==
    /\ alive /\ ~aborted
    /\ IF inTx THEN pending' = pending \cup {row} /\ UNCHANGED stored
               ELSE stored' = stored \cup {row} /\ UNCHANGED pending
    /\ UNCHANGED <<alive, inTx, aborted, faults>>

\* The connection is lost, and with it the transaction.
Lost ==
    /\ alive /\ faults < MaxFaults
    /\ alive' = FALSE /\ inTx' = FALSE /\ aborted' = FALSE /\ pending' = {}
    /\ faults' = faults + 1

\* ... or fails: because the transaction is aborted or the connection is gone,
\* or by itself, which aborts the transaction; ...
Fails ==
    \/ (~alive \/ aborted) /\ UNCHANGED <<session, faults>>
    \/ /\ alive /\ ~aborted /\ faults < MaxFaults
       /\ faults' = faults + 1 /\ aborted' = inTx
       /\ UNCHANGED <<alive, inTx, pending, stored>>

\* ... or takes effect, outside a transaction for good, and its answer is lost.
Unanswered(row) == Lost /\ ~aborted /\ stored' = IF inTx THEN stored ELSE stored \cup {row}

\* BEGIN, whose result the Transaction constructor ignores.
BeginTx ==
    /\ inTx' = (inTx \/ alive)
    /\ UNCHANGED <<alive, aborted, pending, stored, faults>>

\* COMMIT reports success unless the connection is gone ...
CommitStores == stored' = IF aborted THEN stored ELSE stored \cup pending
CommitTx ==
    /\ alive /\ CommitStores
    /\ inTx' = FALSE /\ aborted' = FALSE /\ pending' = {}
    /\ UNCHANGED <<alive, faults>>

\* ... or is lost while it answers, after the server has committed.
CommitUnanswered == Lost /\ CommitStores

\* ROLLBACK, sent by the Transaction destructor whatever has happened.
RollbackTx ==
    /\ inTx' = FALSE /\ aborted' = FALSE /\ pending' = {}
    /\ UNCHANGED <<alive, stored, faults>>

\* A step of thread t interrupts every other saver that is inside its transaction.
Interrupts(t) == clean' = clean \ (begun \ {t})

\* persistPrediction: BEGIN, ...
Begin(s) ==
    /\ booted /\ saver[s] = "idle" /\ BeginTx
    /\ begun' = begun \cup {s}
    /\ clean' = (IF inTx THEN clean ELSE clean \cup {s}) \ begun
    /\ saver' = [saver EXCEPT ![s] = "prediction"]
    /\ UNCHANGED <<durable, doubt, migration>>

\* ... the three rows, each of which must succeed; when enqueueWithRound fails,
\* enqueue is tried in its place, ...
RowOf(pc) == IF pc = "fallback" THEN "outbox" ELSE pc
AfterSaved(pc) == CASE pc = "prediction" -> "claim" [] pc = "claim" -> "outbox" [] OTHER -> "commit"
AfterFailed(pc) == IF pc = "outbox" THEN "fallback" ELSE "rollback"
Save(s) ==
    /\ RowOf(saver[s]) \in Rows /\ Interrupts(s)
    /\ \/ Works(<<s, RowOf(saver[s])>>) /\ saver' = [saver EXCEPT ![s] = AfterSaved(@)]
       \/ (Fails \/ Unanswered(<<s, RowOf(saver[s])>>)) /\ saver' = [saver EXCEPT ![s] = AfterFailed(@)]
    /\ UNCHANGED <<begun, durable, doubt, migration>>

\* Mutant: the failed statement is not noticed and the commit goes ahead.
CommitAfterError(s) == saver[s] \in {"commit", "rollback"}

Commits(s) == saver[s] = "commit"

\* ... and COMMIT, after which the signal is handed to the outbox.
Commit(s) ==
    /\ Commits(s) /\ Interrupts(s)
    /\ CommitTx
    /\ saver' = [saver EXCEPT ![s] = "done"]
    /\ begun' = begun \ {s} /\ durable' = durable \cup {s}
    /\ UNCHANGED <<doubt, migration>>

\* A failed statement or COMMIT: the destructor rolls back (after a failed
\* COMMIT, done_ is set and it does not).
Rollback(s) ==
    /\ saver[s] = "rollback" /\ Interrupts(s)
    /\ RollbackTx
    /\ saver' = [saver EXCEPT ![s] = "failed"]
    /\ begun' = begun \ {s}
    /\ UNCHANGED <<durable, doubt, migration>>
CommitFails(s) ==
    /\ saver[s] = "commit" /\ Interrupts(s)
    /\ \/ ~alive /\ UNCHANGED <<session, doubt, faults>>
       \/ CommitUnanswered /\ doubt' = doubt \cup {s}
    /\ saver' = [saver EXCEPT ![s] = "failed"]
    /\ begun' = begun \ {s}
    /\ UNCHANGED <<durable, migration>>

\* A single statement of another thread.
Statement(o) ==
    /\ booted /\ Interrupts(o)
    /\ Works(<<o, "row">>) \/ Fails \/ Unanswered(<<o, "row">>)
    /\ UNCHANGED <<saver, begun, durable, doubt, migration>>

Disconnect == Lost /\ UNCHANGED <<stored, savers, migration>>

-----------------------------------------------------------------------------

\* isApplied finds the record, if the query succeeds.
IsApplied(f) == alive /\ <<f, Record>> \in stored

\* applySql: BEGIN, the statements in order, the record, COMMIT.
NextPart(p) == p + 1

\* Mutant: applySql without BEGIN, so that each statement commits by itself.
MigrateUnbegun ==
    /\ ~booted /\ part = 0 /\ file <= Files
    /\ part' = NextPart(0) /\ UNCHANGED <<file, session, faults>>
    /\ UNCHANGED <<savers, booted, embedded>>

\* applyAll takes the next file that is not applied yet; the migrations of the
\* embedded schema, numbered by the count of those applied by this process, are
\* applied again each time.
MigrateBegin ==
    /\ ~booted /\ part = 0 /\ file <= Files
    /\ IF ~embedded /\ IsApplied(file) THEN file' = file + 1 /\ UNCHANGED <<part, session, faults>>
       ELSE BeginTx /\ part' = NextPart(0) /\ UNCHANGED file
    /\ UNCHANGED <<savers, booted, embedded>>
MigrateStatement ==
    /\ ~booted /\ part \in 1 .. Record
    /\ \/ Works(<<file, part>>) /\ part' = NextPart(part)
       \/ (Fails \/ Unanswered(<<file, part>>)) /\ part' = 5
    /\ UNCHANGED <<savers, file, booted, embedded>>

\* The result of COMMIT is ignored.
MigrateCommit ==
    /\ ~booted /\ part = 4
    /\ CommitTx \/ CommitUnanswered \/ (~alive /\ UNCHANGED <<session, faults>>)
    /\ file' = file + 1 /\ part' = 0
    /\ UNCHANGED <<savers, booted, embedded>>

\* Application::init fails, or the process dies; a new one starts from the
\* first file.
Restart ==
    /\ ~booted
    /\ IF part = 5 THEN UNCHANGED faults ELSE faults < MaxFaults /\ faults' = faults + 1
    /\ alive' = TRUE /\ inTx' = FALSE /\ aborted' = FALSE /\ pending' = {}
    /\ file' = 1 /\ part' = 0
    /\ UNCHANGED <<stored, savers, booted, embedded>>

Booted ==
    /\ ~booted /\ part = 0 /\ file = Files + 1
    /\ booted' = TRUE
    /\ UNCHANGED <<session, savers, file, part, embedded, faults>>

PersistPrediction(s) == Begin(s) \/ Save(s) \/ Commit(s) \/ CommitFails(s) \/ Rollback(s)
ApplyAll == MigrateBegin \/ MigrateStatement \/ MigrateCommit \/ Booted

Next ==
    \/ \E s \in Savers : PersistPrediction(s)
    \/ \E o \in Others : Statement(o)
    \/ Disconnect \/ ApplyAll \/ Restart

Spec == Init /\ [][Next]_vars

-----------------------------------------------------------------------------

RowsOf(s) == {<<s, r>> : r \in Rows}

(* "persist prediction, unmatched target claim, outbox row atomically      *)
(* before delivery wake" (durable_prediction_tx.hpp:4): a saver that was   *)
(* told its commit succeeded has all its rows stored, and one that failed  *)
(* has none, or all.                                                       *)
SavedAtomically ==
    \A s \in Savers :
        /\ s \in durable => RowsOf(s) \subseteq stored
        /\ saver[s] = "failed" => RowsOf(s) \cap stored \in {{}, RowsOf(s)}

(* Of a saver during whose transaction no other thread issued a statement, *)
(* through failed statements and lost connections: one told of success has *)
(* all its rows stored; one told of a failure has none, except that the    *)
(* COMMIT whose answer was lost has stored them all, so that a save        *)
(* reported as failed is never a save of a part.                           *)
SavedIfUninterrupted ==
    \A s \in Savers \cap clean :
        /\ s \in durable => RowsOf(s) \subseteq stored
        /\ saver[s] = "failed" => RowsOf(s) \cap stored = IF s \in doubt THEN RowsOf(s) ELSE {}

Recorded(f) == <<f, Record>> \in stored

(* A migration is recorded if and only if all its statements are stored,   *)
(* and after all earlier ones, whatever fails, COMMITs without an answer   *)
(* included, and however often the process dies in between and begins      *)
(* again.                                                                  *)
MigrationsWhole ==
    \A f \in 1 .. Files :
        /\ \A p \in Parts : Recorded(f) <=> <<f, p>> \in stored
        /\ Recorded(f) => \A g \in 1 .. f - 1 : Recorded(g)

-----------------------------------------------------------------------------
(* The inductive invariant.                                                *)

TypeOK ==
    /\ alive \in BOOLEAN /\ inTx \in BOOLEAN /\ aborted \in BOOLEAN /\ booted \in BOOLEAN
    /\ saver \in [Savers -> {"idle", "prediction", "claim", "outbox", "fallback", "commit",
                             "rollback", "done", "failed"}]
    /\ file \in 1 .. Files + 1 /\ part \in 0 .. 5

\* Outside a transaction nothing is pending; none survives the connection.
Session ==
    /\ ~inTx => pending = {} /\ ~aborted
    /\ ~alive => ~inTx

\* No row of saver s is in S, and every one is.
NoneIn(s, S) == \A r \in Rows : <<s, r>> \notin S
AllIn(s, S) == \A r \in Rows : <<s, r>> \in S

\* The rows whose statements saver s has behind it at pc.
Behind(pc) ==
    CASE pc = "claim" -> {"prediction"} [] pc \in {"outbox", "fallback"} -> {"prediction", "claim"}
      [] pc = "commit" -> Rows [] OTHER -> {}

\* What a saver that was not interrupted knows of the session inside its transaction.
Alone(s) ==
    /\ NoneIn(s, stored)
    /\ alive => inTx
    /\ alive /\ aborted => saver[s] \in {"fallback", "rollback"}
    /\ alive /\ ~aborted => \A r \in Behind(saver[s]) : <<s, r>> \in pending

SaverOK(s) ==
    /\ s \in begun <=> saver[s] \notin {"idle", "done", "failed"}
    /\ s \in durable => saver[s] = "done"
    /\ s \in doubt => saver[s] = "failed"
    /\ saver[s] = "idle" => s \notin clean /\ NoneIn(s, stored) /\ NoneIn(s, pending)
    /\ s \in clean =>
           /\ s \in begun => Alone(s)
           /\ saver[s] = "failed" =>
                  /\ NoneIn(s, pending)
                  /\ IF s \in doubt THEN AllIn(s, stored) ELSE NoneIn(s, stored)
           /\ s \in durable => AllIn(s, stored)

\* Where applyAll is, while it has the session for itself.
Migrating ==
    /\ part = 0 => ~inTx
    /\ part \in 1 .. 5 => file <= Files
    /\ part \in 1 .. 4 /\ alive =>
           inTx /\ ~aborted /\ pending = {<<file, p>> : p \in 1 .. part - 1}
    /\ alive => \A g \in 1 .. file - 1 : Recorded(g)

\* Afterwards no thread writes a migration.
Migrated == \A f \in 1 .. Files, p \in 1 .. Record : <<f, p>> \notin pending

IInv ==
    /\ TypeOK /\ Session
    /\ \A s \in Savers : SaverOK(s)
    /\ IF booted THEN Migrated ELSE Migrating /\ \A s \in Savers : saver[s] = "idle"
    /\ MigrationsWhole

=============================================================================
