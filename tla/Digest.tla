------------------------------- MODULE Digest -------------------------------
(***************************************************************************)
(* The weekly digest: each run (one per instance, or one after a restart)  *)
(* goes through the recipients and, for each, looks for a delivery row,    *)
(* sends the mail and records the outcome, with an await in between.       *)
(***************************************************************************)
EXTENDS Naturals, FiniteSets

CONSTANTS
    Runs,           \* runs in progress at one time
    Recipients,     \* opted-in players of the week, numbered from 1
    MaxMails        \* bound: mails to one recipient

ASSUME DigestAssumption == IsFiniteSet(Runs) /\ Recipients \in Nat /\ MaxMails \in Nat

VARIABLES
    delivery,       \* per recipient, the status of the row: none, sent, failed
    run,            \* per run, the recipient it is at and the step
    mails,          \* per recipient, mails accepted by the transport
    template        \* the template of the mails: built in, or the admin's

\* History, read by properties only: per recipient, sent mails that were not
\* recorded, and looks for a row while another run was at the recipient.
VARIABLE mishaps

digestVars == <<delivery, run, mails, template, mishaps>>

AtStep(r, pc) == run[r].pc = pc
NoRun == [pc |-> "idle", to |-> 0]

DigestInit ==
    /\ delivery = [u \in 1 .. Recipients |-> "none"]
    /\ run = [r \in Runs |-> NoRun]
    /\ mails = [u \in 1 .. Recipients |-> 0] /\ template = "default"
    /\ mishaps = [u \in 1 .. Recipients |-> 0]

-----------------------------------------------------------------------------
\* The next recipient, or the end of the run.
NextTo(r) ==
    run' = [run EXCEPT ![r] = IF @.to < Recipients THEN [pc |-> "look", to |-> @.to + 1] ELSE NoRun]

StartRun(r) ==
    /\ AtStep(r, "idle") /\ NextTo(r)
    /\ UNCHANGED <<delivery, mails, mishaps, template>>

\* Mutant: no row counts as a delivery.
NoneDelivered(u) == FALSE

Delivered(u) == delivery[u] = "sent"

Shares(r) == \E q \in Runs \ {r} : run[q].to = run[r].to /\ run[q].pc # "look"

LookUp(r) == LET u == run[r].to IN
    /\ AtStep(r, "look")
    /\ IF Delivered(u) THEN NextTo(r) /\ UNCHANGED mishaps
       ELSE /\ run' = [run EXCEPT ![r].pc = "send"]
            /\ mishaps' = [mishaps EXCEPT ![u] = IF Shares(r) THEN @ + 1 ELSE @]
            /\ mishaps'[u] < MaxMails
    /\ UNCHANGED <<delivery, mails, template>>

\* sendMail: accepted, or rejected.
SendMail(r) == LET u == run[r].to IN
    /\ AtStep(r, "send")
    /\ \/ /\ mails[u] < MaxMails
          /\ mails' = [mails EXCEPT ![u] = @ + 1]
          /\ run' = [run EXCEPT ![r].pc = "sent"]
       \/ run' = [run EXCEPT ![r].pc = "failed"] /\ UNCHANGED mails
    /\ UNCHANGED <<delivery, mishaps, template>>

\* record upserts the row, over whatever another run has recorded.
Record(r) == LET u == run[r].to IN
    /\ run[r].pc \in {"sent", "failed"}
    /\ delivery' = [delivery EXCEPT ![u] = run[r].pc]
    /\ NextTo(r)
    /\ UNCHANGED <<mails, mishaps, template>>

Mishap(r, u) == mishaps' = [mishaps EXCEPT ![u] = IF AtStep(r, "sent") THEN @ + 1 ELSE @]

\* The record of a sent mail fails, and is recorded as a failure.
RecordFails(r) == LET u == run[r].to IN
    /\ AtStep(r, "sent") /\ mishaps[u] < MaxMails
    /\ run' = [run EXCEPT ![r].pc = "failed"]
    /\ Mishap(r, u)
    /\ UNCHANGED <<delivery, mails, template>>

\* A crash, or an error outside of the try, ends the run.
RunDies(r) == LET u == run[r].to IN
    /\ ~AtStep(r, "idle") /\ mishaps[u] < MaxMails
    /\ run' = [run EXCEPT ![r] = NoRun]
    /\ Mishap(r, u)
    /\ UNCHANGED <<delivery, mails, template>>

\* The admin stores a template that passed validation; a run in progress has
\* read the one before.
UpdateTemplate ==
    /\ template' = "stored"
    /\ UNCHANGED <<delivery, run, mails, mishaps>>

DigestNext ==
    \/ UpdateTemplate
    \/ \E r \in Runs : \/ StartRun(r) \/ LookUp(r) \/ SendMail(r)
                       \/ Record(r) \/ RecordFails(r) \/ RunDies(r)

DigestSpec == DigestInit /\ [][DigestNext]_digestVars

-----------------------------------------------------------------------------
DigestTypeOK ==
    /\ delivery \in [1 .. Recipients -> {"none", "sent", "failed"}]
    /\ template \in {"default", "stored"}
    /\ run \in [Runs -> [pc : {"idle", "look", "send", "sent", "failed"}, to : 0 .. Recipients]]
    /\ mails \in [1 .. Recipients -> 0 .. MaxMails] /\ mishaps \in [1 .. Recipients -> 0 .. MaxMails]

\* A recipient gets one mail a week, and one more for each mail that was sent
\* but not recorded and each run that looked while another was at the same
\* recipient; and a row that says sent means that a mail was sent.
MailedOnce ==
    \A u \in 1 .. Recipients :
        /\ mails[u] <= 1 + mishaps[u]
        /\ delivery[u] = "sent" => mails[u] > 0
=============================================================================
