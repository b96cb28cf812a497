----------------------------- MODULE RestCommit -----------------------------
(***************************************************************************)
(* The commit client (commit/rest.rs): every attempt presents a token of   *)
(* its own, a throttled request is sent again unchanged a bounded number   *)
(* of times, and any other answer is classified.  The catalog applies a    *)
(* commit when its assertion on the table holds; an answer may be lost     *)
(* after that, and a request nobody waits for may still be applied.        *)
(***************************************************************************)
EXTENDS TokenSource

CONSTANTS
    NoId,                \* no commit
    MaxThrottleRetries,  \* re-sends of a throttled commit
    MaxRequestTime       \* how long a request can take before it times out

VARIABLES
    branch,   \* each table at the catalog: how often it moved, and Bergman's last commit to it
    commit,   \* each task's commit: where it is, its identity, its base, its re-sends
    late      \* requests that are still under way though nobody waits for them

restVars == <<branch, commit, late>>

ASSUME RestCommitAssumption == MaxThrottleRetries \in Nat

NoCommit == [pc |-> "none", id |-> NoId, base |-> 0, sends |-> 0]

RestInit ==
    /\ branch = [t \in Tasks |-> [moves |-> 0, last |-> NoId]]
    /\ commit = [t \in Tasks |-> NoCommit]
    /\ late = {}

(* What an answer means to the caller. *)
Classify(status) ==
    CASE status \in {"conflict"} -> "conflicted"
      [] status \in {"unauthorized", "forbidden"} -> "refused"
      [] OTHER -> "failed"

IsThrottle(status) == status = "throttled"

(* Mutant: the re-sends are not counted. *)
Uncounted(t) == commit[t].sends
SendsSoFar(t) == commit[t].sends + 1

(* Mutant: the commit is rebuilt for the table as it is before it is sent again. *)
Rebased(t) == branch[t].moves
ResentBase(t) == commit[t].base

-----------------------------------------------------------------------------

(* A commit is asked for: the first thing it needs is a token. *)
StartCommit(t, id, base) ==
    /\ commit' = [commit EXCEPT ![t] = [pc |-> "committing", id |-> id, base |-> base, sends |-> 0]]
    /\ At(t, "asking")
    /\ UNCHANGED <<now, credential, slot, holder, branch, late>>

End(t, result) == commit' = [commit EXCEPT ![t] = [NoCommit EXCEPT !.pc = result]]

(* No token, no request. *)
NoTokenToSend(t) ==
    /\ commit[t].pc = "committing"
    /\ client[t].pc = "failed"
    /\ End(t, "failed")
    /\ EndCall(t)
    /\ UNCHANGED <<branch, late>>

Request(t) == [task |-> t, id |-> commit[t].id, base |-> commit[t].base]

(* The assertion of a commit: the branch is where the commit was built. *)
Holds(r) == branch[r.task].moves = r.base

(* The table moves; what was on its way for where it was can no longer land. *)
Move(t, id) ==
    /\ branch' = [branch EXCEPT ![t] = [moves |-> @.moves + 1, last |-> id]]
    /\ late' = {r \in late : r.task # t}

(* What may still land of a request nobody waits for. *)
StillComing(t) == {r \in {Request(t)} : client[t].pc = "armed" /\ Holds(r)}

SendAgain(t) ==
    /\ commit[t].sends < MaxThrottleRetries
    /\ commit' = [commit EXCEPT ![t].pc = "waiting", ![t].sends = SendsSoFar(t)]

(* The catalog applies the commit; the answer may be that, or a gateway's. *)
Applied(t) ==
    /\ commit[t].pc = "committing" /\ client[t].pc = "armed"
    /\ Usable(client[t].token) /\ Holds(Request(t))
    /\ Move(t, commit[t].id)
    /\ End(t, "succeeded") \/ End(t, "failed") \/ SendAgain(t)
    /\ EndCall(t)

(* The answers that leave the table as it is. *)
Statuses(t) ==
    {"throttled", "forbidden", "other"}
        \cup (IF Holds(Request(t)) THEN {} ELSE {"conflict"})
        \cup (IF Usable(client[t].token) THEN {} ELSE {"unauthorized"})

Answered(t) ==
    /\ commit[t].pc = "committing" /\ client[t].pc = "armed"
    /\ \E status \in Statuses(t) :
        IF IsThrottle(status) /\ commit[t].sends < MaxThrottleRetries
        THEN SendAgain(t)
        ELSE End(t, Classify(status))
    /\ EndCall(t)
    /\ UNCHANGED <<branch, late>>

(* The request, or the gateway before the catalog, times out; what was sent  *)
(* may still arrive.                                                         *)
Unanswered(t) ==
    /\ commit[t].pc = "committing" /\ client[t].pc = "armed"
    /\ late' = late \cup StillComing(t)
    /\ End(t, "failed") \/ SendAgain(t)
    /\ EndCall(t)
    /\ UNCHANGED branch

(* After the wait the identical request is sent again, with a token of its own. *)
Resend(t) ==
    /\ commit[t].pc = "waiting"
    /\ commit' = [commit EXCEPT ![t].pc = "committing", ![t].base = ResentBase(t)]
    /\ At(t, "asking")
    /\ UNCHANGED <<now, credential, slot, holder, branch, late>>

CommitRequest(t) == NoTokenToSend(t) \/ Applied(t) \/ Answered(t) \/ Unanswered(t) \/ Resend(t)

(* The operation is dropped at whatever await it had reached; a request that *)
(* is on its way stays on its way.                                           *)
Abandon(t) ==
    /\ late' = late \cup StillComing(t)
    /\ commit' = [commit EXCEPT ![t] = NoCommit]
    /\ EndCall(t)
    /\ UNCHANGED branch

Arrives(r) ==
    /\ Holds(r) /\ Move(r.task, r.id)
    /\ UNCHANGED <<tokenVars, commit>>

(* A request that takes longer than this has timed out. *)
TimelyRequests == \A t \in Tasks : client[t].pc = "armed" => now < client[t].since + MaxRequestTime
=============================================================================
