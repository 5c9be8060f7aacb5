------------------------------ MODULE Webhook ------------------------------
(***************************************************************************)
(* The report of one execution that failed: the end of its worker, the     *)
(* notification task that reads the row again, and the posts to the        *)
(* webhook (services/execution_queue.py, NotificationService).             *)
(*                                                                         *)
(* The row is not the notification's alone: an enqueue under kill_previous *)
(* that read it live may overwrite it, and its project may be deleted. A   *)
(* post given up on may still reach the receiver.                          *)
(***************************************************************************)
EXTENDS Naturals

CONSTANTS
    MaxPosts  \* _MAX_ATTEMPTS

Post == 1..MaxPosts
Reply == {"below 400", "4xx", "5xx"}

(* Assumed of the constants, by the modules that give them values. *)
WebhookAssumption == MaxPosts \in Nat \ {0}

VARIABLES
    url,      \* CRONDOK_WEBHOOK_URL: set or unset
    status,   \* status of the execution's row, or absent
    cause,    \* how its worker ended
    rival,    \* the enqueue under kill_previous: has it read, or saved
    notice,   \* the notification: what it does next
    claim,    \* `timed_out` of the payload, once it is built
    attempt,  \* posts begun
    wire,     \* posts on their way to the receiver
    reply     \* what the receiver replied to each post

webhookVars == <<url, status, cause, rival, notice, claim, attempt, wire, reply>>

rowVars == <<status, cause, rival>>
postVars == <<claim, attempt, wire, reply>>

-----------------------------------------------------------------------------

WebhookTypeOK ==
    /\ url \in {"set", "unset"}
    /\ status \in {"running", "failed", "killed", "absent"}
    /\ cause \in {"none", "failed", "timeout", "cancelled"}
    /\ rival \in {"idle", "read", "over", "overwrote"}
    /\ notice \in {"none", "read", "post", "ended", "never"}
    /\ claim \in {"none", "true", "false"}
    /\ attempt \in 0..MaxPosts
    /\ wire \in SUBSET Post
    /\ reply \in [Post -> Reply \cup {"none"}]

WebhookInit ==
    /\ url \in {"set", "unset"}
    /\ status = "running" /\ cause = "none" /\ rival = "idle"
    /\ notice = "none" /\ claim = "none"
    /\ attempt = 0 /\ wire = {} /\ reply = [n \in Post |-> "none"]

-----------------------------------------------------------------------------
(* The row *)

(* _run has the executor's result and commits the terminal status. *)
WorkerEnds ==
    /\ cause = "none"
    /\ \E c \in {"failed", "timeout"} :
         /\ cause' = c
         /\ status' = IF status = "absent" THEN status
                      ELSE IF c = "failed" THEN "failed" ELSE "killed"
    /\ UNCHANGED <<url, rival, notice, postVars>>

(* An enqueue under kill_previous lists the execution among the active, as *)
(* running, or as queued just before.                                      *)
RivalReads ==
    /\ rival = "idle" /\ status = "running" /\ rival' = "read"
    /\ UNCHANGED <<url, status, cause, notice, postVars>>

(* The victim is saved as killed; save() raises if its row is gone. *)
Overwrite ==
    IF status = "absent" THEN rival' = "over" /\ status' = status
    ELSE rival' = "overwrote" /\ status' = "killed"

Spare == rival' = "over" /\ status' = status

(* The worker runs still: it is cancelled, and saves killed or not. *)
RivalCancels ==
    /\ rival = "read" /\ cause = "none"
    /\ cause' = "cancelled" /\ notice' = "never"
    /\ Spare \/ Overwrite
    /\ UNCHANGED <<url, postVars>>

(* The worker has its status committed and closes the log: it is cancelled *)
(* too late or before it makes the notification; its row is saved over if  *)
(* it was read as queued.                                                  *)
RivalInterrupts ==
    /\ rival = "read" /\ cause # "none" /\ notice = "none"
    /\ notice' \in {"none", "never"}
    /\ Spare \/ Overwrite
    /\ UNCHANGED <<url, cause, postVars>>

(* The worker is gone: its row is saved over. *)
RivalSaves ==
    /\ rival = "read" /\ notice # "none"
    /\ Overwrite
    /\ UNCHANGED <<url, cause, notice, postVars>>

(* The row goes with its project. *)
CascadeRow ==
    /\ status # "absent" /\ status' = "absent"
    /\ UNCHANGED <<url, cause, rival, notice, postVars>>

-----------------------------------------------------------------------------
(* The notification *)

(* The log is closed and the task of the notification made. *)
Schedule ==
    /\ notice = "none" /\ cause \in {"failed", "timeout"}
    /\ notice' = "read"
    /\ UNCHANGED <<url, rowVars, postVars>>

(* _build_payload: the row says killed. *)
TimedOut == IF status = "killed" THEN "true" ELSE "false"

(* The row is read; nothing is sent of one that is gone, or to nowhere. *)
NotifyFailure ==
    /\ notice = "read"
    /\ IF status = "absent" \/ url = "unset"
       THEN notice' = "ended" /\ UNCHANGED postVars
       ELSE /\ notice' = "post" /\ claim' = TimedOut
            /\ attempt' = 1 /\ wire' = {1}
            /\ reply' = reply
    /\ UNCHANGED <<url, rowVars>>

(* Mutant: the loop is one attempt short. *)
MoreAttempts_short == attempt + 1 < MaxPosts

MoreAttempts == attempt < MaxPosts

(* The next turn of the loop of _post_with_retry, or its end; what was on  *)
(* the way (`sent`) is not called back.                                    *)
NextAttempt(sent) ==
    IF MoreAttempts
    THEN attempt' = attempt + 1 /\ wire' = sent \cup {attempt + 1} /\ notice' = notice
    ELSE notice' = "ended" /\ wire' = sent /\ attempt' = attempt

(* The receiver handles a post, late or not. *)
Receive ==
    /\ \E n \in wire, r \in Reply :
         /\ wire' = wire \ {n}
         /\ reply' = [reply EXCEPT ![n] = r]
    /\ UNCHANGED <<url, rowVars, notice, claim, attempt>>

(* The response of the post: below 500 it is final, whatever it says. *)
Respond ==
    /\ notice = "post" /\ reply[attempt] # "none"
    /\ IF reply[attempt] = "5xx" THEN NextAttempt(wire)
       ELSE notice' = "ended" /\ UNCHANGED <<attempt, wire>>
    /\ UNCHANGED <<url, rowVars, claim, reply>>

(* The post raises: no connection, or no response within the timeout. The  *)
(* exception of the last is swallowed by notify_failure.                   *)
PostRaises ==
    /\ notice = "post"
    /\ \E sent \in {wire, wire \ {attempt}} : NextAttempt(sent)
    /\ UNCHANGED <<url, rowVars, claim, reply>>

(* The process dies; nobody resumes the notification. *)
NoticeDies ==
    /\ notice \in {"read", "post"} /\ notice' = "never"
    /\ UNCHANGED <<url, rowVars, postVars>>

WebhookNext ==
    \/ WorkerEnds \/ RivalReads \/ RivalCancels \/ RivalInterrupts
    \/ RivalSaves \/ CascadeRow \/ Schedule \/ NotifyFailure
    \/ Receive \/ Respond \/ PostRaises \/ NoticeDies

WebhookSpec == WebhookInit /\ [][WebhookNext]_webhookVars

-----------------------------------------------------------------------------

(* `timed_out` says whether the timeout ended the execution, unless an     *)
(* enqueue that had read the row live wrote killed over failed before the  *)
(* notification read it (docstring of _build_payload, which knows of no    *)
(* such case); and what was cancelled is not reported at all.              *)
ClaimTrue ==
    attempt > 0 =>
        \/ cause = "failed" /\ claim = "false"
        \/ cause = "timeout" /\ claim = "true"
        \/ cause = "failed" /\ rival = "overwrote"

(* A report ends before the last attempt only when the receiver has it and *)
(* said so (_post_with_retry).                                             *)
GivenUpLast ==
    notice = "ended" /\ attempt > 0 =>
        attempt = MaxPosts \/ reply[attempt] \in {"below 400", "4xx"}

(* What the webhook is told is true, and is told with all the attempts.    *)
ReportTruthful == ClaimTrue /\ GivenUpLast
=============================================================================
