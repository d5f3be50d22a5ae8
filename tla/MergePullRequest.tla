-------------------------- MODULE MergePullRequest --------------------------
(***************************************************************************)
(* scripts/merge-pr.py: a pull request is viewed and validated against a   *)
(* review file, twice, and then merged by the server if its head is still  *)
(* the one that was validated.  Meanwhile authors push, checks start, end  *)
(* and are run again, the base moves and the review file is rewritten.     *)
(***************************************************************************)
EXTENDS Integers, FiniteSets

CONSTANTS
    OtherChecks,    \* checks beside "Required CI"
    Statuses,       \* what checks report: "pending", "success", "failure", "skipped"
    MaxHead,        \* bound: commits pushed
    MaxBase         \* bound: commits of main

ASSUME MergeAssumption ==
    /\ "Required CI" \notin OtherChecks
    /\ MaxHead \in Nat /\ MaxBase \in Nat

VARIABLES
    pull,           \* the pull request on the server
    review,         \* the review file
    merger,         \* the script
    green,          \* ghost: heads all of whose checks were successful at once
    cleared         \* ghost: heads that a review without blocking findings named

mergeVars == <<pull, review, merger, green, cleared>>

Checks == {"Required CI"} \cup OtherChecks
Passing(c) == IF c = "Required CI" THEN {"success"} ELSE {"absent", "success", "skipped"}
Commits == 1 .. MaxHead

NoReview == [sha |-> 0, reviewers |-> FALSE, blocking |-> FALSE]
NotStarted == [phase |-> "idle"]

-----------------------------------------------------------------------------
(* The script.                                                             *)

(* Required CI is there and successful; no other check failed or pends.    *)
ChecksPass(pr) == \A c \in Checks : pr.checks[c] \in Passing(c)

validate(pr, reviewed) ==
    /\ pr.state = "open" /\ ~pr.draft
    /\ pr.clean
    /\ reviewed.sha = pr.head /\ reviewed.reviewers
    /\ ~reviewed.blocking
    /\ ChecksPass(pr)

(* The script begins with a view of the pull request.                      *)
View(execute) ==
    /\ merger = NotStarted
    /\ merger' = [phase |-> "viewed", execute |-> execute, pr |-> pull]
    /\ UNCHANGED <<pull, review, green, cleared>>

(* Then it reads the review file.  Without --execute it is done.           *)
Validate ==
    /\ merger.phase = "viewed"
    /\ merger' = IF validate(merger.pr, review) /\ merger.execute
                 THEN [phase |-> "validated", sha |-> merger.pr.head, base |-> merger.pr.base]
                 ELSE NotStarted
    /\ UNCHANGED <<pull, review, green, cleared>>

ViewAgain ==
    /\ merger.phase = "validated"
    /\ merger' = [phase |-> "viewed again", sha |-> merger.sha, base |-> merger.base,
                  fresh |-> pull]
    /\ UNCHANGED <<pull, review, green, cleared>>

ValidateAgain ==
    /\ merger.phase = "viewed again"
    /\ merger' = IF /\ validate(merger.fresh, review)
                    /\ merger.fresh.head = merger.sha
                    /\ merger.fresh.base = merger.base
                 THEN [phase |-> "merging", sha |-> merger.sha]
                 ELSE NotStarted
    /\ UNCHANGED <<pull, review, green, cleared>>

(* Mutant: the server merges whatever the head is now.                     *)
ServerAcceptsAny(sha) == pull.state = "open"

(* gh pr merge --match-head-commit.                                        *)
ServerAccepts(sha) == pull.state = "open" /\ pull.head = sha

Merge ==
    /\ merger.phase = "merging"
    /\ merger' = NotStarted
    /\ pull' = IF ServerAccepts(merger.sha) THEN [pull EXCEPT !.state = "merged"]
               ELSE pull
    /\ UNCHANGED <<review, green, cleared>>

-----------------------------------------------------------------------------
(* Everyone else.                                                          *)

MergeInit ==
    /\ pull = [head |-> 1, base |-> 1, state |-> "open", draft |-> FALSE, clean |-> TRUE,
               checks |-> [c \in Checks |-> "absent"]]
    /\ review = NoReview
    /\ merger = NotStarted
    /\ green = {} /\ cleared = {}

Changes(changed) ==
    /\ pull.state = "open"
    /\ pull' = changed
    /\ green' = IF \A c \in Checks : changed.checks[c] \in Passing(c)
                THEN green \cup {changed.head} ELSE green
    /\ UNCHANGED <<review, merger, cleared>>

(* A push begins without checks.                                           *)
Push ==
    /\ pull.head < MaxHead
    /\ Changes([pull EXCEPT !.head = @ + 1, !.checks = [c \in Checks |-> "absent"]])

CheckReports(c, status) == Changes([pull EXCEPT !.checks[c] = status])

BaseMoves ==
    /\ pull.base < MaxBase
    /\ \E clean \in BOOLEAN : Changes([pull EXCEPT !.base = @ + 1, !.clean = clean])

ToggleDraft == Changes([pull EXCEPT !.draft = ~@])
ClosePull == Changes([pull EXCEPT !.state = "closed"])

WriteReview(sha, blocking) ==
    /\ review' = [sha |-> sha, reviewers |-> TRUE, blocking |-> blocking]
    /\ cleared' = IF blocking THEN cleared ELSE cleared \cup {sha}
    /\ UNCHANGED <<pull, merger, green>>

MergeNext ==
    \/ \E execute \in BOOLEAN : View(execute)
    \/ Validate \/ ViewAgain \/ ValidateAgain \/ Merge
    \/ Push \/ BaseMoves \/ ToggleDraft \/ ClosePull
    \/ \E c \in Checks, status \in Statuses : CheckReports(c, status)
    \/ \E sha \in Commits, blocking \in BOOLEAN : sha <= pull.head /\ WriteReview(sha, blocking)

MergeSpec == MergeInit /\ [][MergeNext]_mergeVars

-----------------------------------------------------------------------------
(* What is merged is a commit that a review without blocking findings      *)
(* named and whose checks, Required CI among them, were all successful at  *)
(* one time: whatever is pushed, run again or rewritten while the script   *)
(* is between its two views, or between the second and the merge.          *)
MergedIsReviewedAndGreen ==
    pull.state = "merged" => pull.head \in green \cap cleared

=============================================================================
