------------------------------- MODULE Evidence --------------------------------
(***************************************************************************)
(* The normalised evidence tables (src/internal/storage/sqlite/save.go)    *)
(* and their comparison with an aggregate (consistency.go).  One record    *)
(* stands for a campaign's rows in all of them; the credential row is a    *)
(* field of its own, because it has a comparison of its own.               *)
(***************************************************************************)
EXTENDS Certificate

\* A finding without a round has an empty, not a nil, list of round ids in memory and
\* is written as "[]" by the transaction that raised it.  The aggregate's JSON omits
\* an empty list, so that it is nil, and "null", from the next load on.
RoundListText(f, raised) ==
    IF f.round # {} THEN "ids" ELSE IF f \in raised THEN "[]" ELSE "null"

EvidenceRows_Versioned(c, raised) ==
    [points |-> c.points, instruments |-> c.instruments, rounds |-> c.rounds,
     batches |-> {<<b, c.version>> : b \in c.batches},
     findings |-> {[finding |-> f, disposition |-> c.findings[f],
                    roundList |-> RoundListText(f, raised)] : f \in DOMAIN c.findings},
     credential |-> c.credential]

EvidenceRows(c, raised) ==
    [points |-> c.points, instruments |-> c.instruments, rounds |-> c.rounds,
     batches |-> c.batches,
     findings |-> {[finding |-> f, disposition |-> c.findings[f],
                    roundList |-> RoundListText(f, raised)] : f \in DOMAIN c.findings},
     credential |-> c.credential]

Tables == <<"points", "instruments", "rounds", "batches", "findings">>

ExpectedEvidenceRows(c) == EvidenceRows(c, {})

NoRows == [points |-> {}, instruments |-> {}, rounds |-> << >>, batches |-> {},
           findings |-> {}, credential |-> {}]

\* detectPersistenceMismatch: the rows of the five tables, and the credential row.
EvidenceMismatch(c, rows) ==
    \E i \in DOMAIN Tables : rows[Tables[i]] # ExpectedEvidenceRows(c)[Tables[i]]

CredentialMismatch(c, rows) == rows.credential # c.credential
================================================================================
