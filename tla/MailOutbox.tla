----------------------------- MODULE MailOutbox -----------------------------
(***************************************************************************)
(* The queue of outgoing mail: mail_outbox and the worker that claims one  *)
(* message after another, hands it to the SMTP server and records what     *)
(* came of it, with an administrator who switches delivery off and on.     *)
(* Time is kept as what it changes: a message comes due, the moment after  *)
(* which it must be discarded passes, a claim grows older than 10 minutes. *)
(***************************************************************************)
EXTENDS Naturals, FiniteSets

CONSTANTS
    Messages,     \* messages somebody may queue, each once
    Dated,        \* those with a discard_after
    MaxAttempts,  \* 6: the attempt that is the last
    MaxSwitches,  \* bound: times delivery is switched off or on
    MaxTroubles,  \* bound: troubles, all told
    Troubles      \* the kinds of them that happen

ASSUME MailAssumption ==
    /\ Dated \subseteq Messages
    /\ "nothing" \notin Messages
    /\ MaxAttempts \in Nat \ {0}
    /\ {MaxSwitches, MaxTroubles} \subseteq Nat
    /\ Troubles \subseteq {"crash", "statement", "quit"}

VARIABLES
    row,       \* mail_outbox
    enabled,   \* instance_settings.mail_enabled
    worker,    \* where deliver is, and with which message
    accepted,  \* how often the SMTP server accepted each message
    missed,    \* acceptances that were not recorded
    switches, troubles   \* what the bounds count

mailVars == <<row, enabled, worker, accepted, missed, switches, troubles>>

NotQueued == [queued |-> FALSE, sent |-> FALSE, failed |-> FALSE, claim |-> "none",
              attempts |-> 0, due |-> FALSE, expired |-> FALSE, whole |-> FALSE]

Queued == [NotQueued EXCEPT !.queued = TRUE, !.due = TRUE, !.whole = TRUE]

Resting == [at |-> "resting", message |-> "nothing", attempt |-> 0]

MailInit ==
    /\ row = [m \in Messages |-> NotQueued]
    /\ enabled \in BOOLEAN
    /\ worker = Resting
    /\ accepted = [m \in Messages |-> 0]
    /\ missed = [m \in Messages |-> 0]
    /\ switches = 0 /\ troubles = 0

Settled(m) == row[m].sent \/ row[m].failed
Open(m) == row[m].queued /\ ~Settled(m)

Happens(trouble) ==
    /\ trouble \in Troubles
    /\ troubles < MaxTroubles /\ troubles' = troubles + 1

(* A statement fails; it may have taken effect all the same.               *)
StatementFails == Happens("statement")
Works == UNCHANGED troubles

Goes(at) == worker' = [worker EXCEPT !.at = at]
Rests == worker' = Resting

-----------------------------------------------------------------------------
EnqueueMail(m) ==
    /\ ~row[m].queued
    /\ row' = [row EXCEPT ![m] = Queued]
    /\ UNCHANGED <<enabled, worker, accepted, missed, switches, troubles>>

SetMailEnabled ==
    /\ switches < MaxSwitches
    /\ switches' = switches + 1
    /\ enabled' = ~enabled
    /\ UNCHANGED <<row, worker, accepted, missed, troubles>>

(* next_attempt_at, discard_after and the age of a claim.  Send is over    *)
(* within 45 seconds, long before the claim it was made under is old.      *)
TimePasses(m) ==
    /\ \/ Open(m) /\ ~row[m].due /\ row' = [row EXCEPT ![m].due = TRUE]
       \/ Open(m) /\ m \in Dated /\ ~row[m].expired /\ row' = [row EXCEPT ![m].expired = TRUE]
       \/ /\ row[m].claim = "fresh" /\ worker.message # m
          /\ row' = [row EXCEPT ![m].claim = "old"]
    /\ UNCHANGED <<enabled, worker, accepted, missed, switches, troubles>>

-----------------------------------------------------------------------------
UnclaimedOnly(m) == row[m].claim = "none"

Unheld(m) == row[m].claim # "fresh"

Redacted(m, field) == [row[m] EXCEPT ![field] = TRUE, !.claim = "none", !.whole = FALSE]

Expired == [m \in Messages |->
    IF Open(m) /\ row[m].expired /\ Unheld(m) THEN Redacted(m, "failed") ELSE row[m]]

(* deliver begins, woken or by the ticker: ExpireMail first.               *)
ExpireMail ==
    /\ worker.at = "resting"
    /\ \/ Works /\ row' = Expired /\ Goes("reading")
       \/ StatementFails /\ row' \in {row, Expired} /\ Rests
    /\ UNCHANGED <<enabled, accepted, missed, switches>>

(* The switch is read again before every message.                          *)
MailSettings ==
    /\ worker.at = "reading"
    /\ \/ Works /\ enabled /\ Goes("claiming")
       \/ Works /\ ~enabled /\ Rests
       \/ StatementFails /\ Rests
    /\ UNCHANGED <<row, enabled, accepted, missed, switches>>

NotFailed(m) == row[m].queued /\ ~row[m].failed

StillToSend(m) == Open(m)

Claimable(m) == StillToSend(m) /\ row[m].due /\ ~row[m].expired /\ Unheld(m)

(* One statement, which counts the attempt as it claims.                   *)
ClaimMail(m) ==
    /\ worker.at = "claiming"
    /\ Claimable(m)
    /\ \/ /\ Works
          /\ row' = [row EXCEPT ![m].claim = "fresh", ![m].attempts = @ + 1]
          /\ worker' = [at |-> "sending", message |-> m, attempt |-> row[m].attempts + 1]
       \/ /\ StatementFails
          /\ row' \in {row, [row EXCEPT ![m].claim = "fresh", ![m].attempts = @ + 1]}
          /\ Rests
    /\ UNCHANGED <<enabled, accepted, missed, switches>>

NothingToClaim ==
    /\ worker.at = "claiming"
    /\ \A m \in Messages : ~Claimable(m)
    /\ Rests
    /\ UNCHANGED <<row, enabled, accepted, missed, switches, troubles>>

(* Send, to the end of DATA; then QUIT, whose failure is reported as one   *)
(* of the delivery.                                                        *)
Send ==
    LET m == worker.message IN
    /\ worker.at = "sending"
    /\ \/ /\ Works /\ Goes("accepted")
          /\ accepted' = [accepted EXCEPT ![m] = @ + 1]
          /\ UNCHANGED missed
       \/ Works /\ Goes("refused") /\ UNCHANGED <<accepted, missed>>
       \/ /\ Happens("quit") /\ Goes("refused")
          /\ accepted' = [accepted EXCEPT ![m] = @ + 1]
          /\ missed' = [missed EXCEPT ![m] = @ + 1]
    /\ UNCHANGED <<row, enabled, switches>>

Continues == worker' = [Resting EXCEPT !.at = "reading"]

Sent(m) == [row EXCEPT ![m] = Redacted(m, "sent")]

MarkMailSent ==
    LET m == worker.message IN
    /\ worker.at = "accepted"
    /\ \/ Works /\ row' = Sent(m) /\ UNCHANGED missed
       \/ StatementFails /\ row' = Sent(m) /\ UNCHANGED missed
       \/ StatementFails /\ UNCHANGED row /\ missed' = [missed EXCEPT ![m] = @ + 1]
    /\ Continues
    /\ UNCHANGED <<enabled, accepted, switches>>

LastAttempt == worker.attempt >= MaxAttempts

Retried(m) ==
    [row[m] EXCEPT !.claim = "none", !.due = FALSE, !.failed = LastAttempt,
                   !.whole = @ /\ ~LastAttempt]

RetryMail ==
    LET m == worker.message IN
    /\ worker.at = "refused"
    /\ \/ Works /\ row' = [row EXCEPT ![m] = Retried(m)]
       \/ StatementFails /\ row' \in {row, [row EXCEPT ![m] = Retried(m)]}
    /\ Continues
    /\ UNCHANGED <<enabled, accepted, missed, switches>>

(* The process dies and another one starts its worker.                     *)
Crash ==
    LET m == worker.message IN
    /\ worker.at # "resting"
    /\ Happens("crash")
    /\ Rests
    /\ missed' = IF worker.at = "accepted" THEN [missed EXCEPT ![m] = @ + 1] ELSE missed
    /\ UNCHANGED <<row, enabled, accepted, switches>>

Deliver ==
    \/ ExpireMail \/ MailSettings \/ (\E m \in Messages : ClaimMail(m)) \/ NothingToClaim
    \/ Send \/ MarkMailSent \/ RetryMail

MailNext ==
    \/ \E m \in Messages : EnqueueMail(m) \/ TimePasses(m)
    \/ SetMailEnabled \/ Deliver \/ Crash

MailSpec == MailInit /\ [][MailNext]_mailVars

(* The ticker starts deliver for ever, time passes, and claims are made in *)
(* the order of next_attempt_at, so a message that is due has its turn.    *)
FairMailSpec ==
    /\ MailSpec
    /\ WF_mailVars(Deliver)
    /\ \A m \in Messages : WF_mailVars(TimePasses(m)) /\ SF_mailVars(ClaimMail(m))

-----------------------------------------------------------------------------
RowType == [queued : BOOLEAN, sent : BOOLEAN, failed : BOOLEAN, claim : {"none", "fresh", "old"},
            attempts : Nat, due : BOOLEAN, expired : BOOLEAN, whole : BOOLEAN]

TypeOK ==
    /\ row \in [Messages -> RowType]
    /\ enabled \in BOOLEAN
    /\ worker \in [at : {"resting", "reading", "claiming", "sending", "accepted", "refused"},
                   message : Messages \cup {"nothing"}, attempt : 0..MaxAttempts + MaxTroubles]
    /\ accepted \in [Messages -> Nat] /\ missed \in [Messages -> Nat]
    /\ switches \in Nat /\ troubles \in Nat

(* The recipient gets a message again only for an acceptance that could    *)
(* not be recorded, once for each of them: neither a retry, nor an old     *)
(* claim taken over, nor a restart sends what is known to be sent.         *)
SentAgainOnlyIfMissed == \A m \in Messages : accepted[m] <= 1 + missed[m]

(* A message is emptied when, and only when, nothing more will be sent of  *)
(* it: what the worker claims still has its recipient and its text.        *)
ClosedIsEmptied == \A m \in Messages : row[m].queued => (row[m].whole <=> Open(m))

(* A server that refuses is asked MaxAttempts times; an attempt more takes *)
(* a trouble that kept the last one from being recorded.                   *)
GivesUp == \A m \in Messages : row[m].attempts <= MaxAttempts + troubles

(* Every message ends sent or failed, through crashes and abandoned        *)
(* claims, unless delivery is switched off - and one that must be          *)
(* discarded ends even then.                                               *)
EveryMessageEnds ==
    \A m \in Messages : Open(m) ~> Settled(m) \/ (~enabled /\ m \notin Dated)
=============================================================================
