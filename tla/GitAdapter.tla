------------------------------ MODULE GitAdapter -----------------------------
(***************************************************************************)
(* The governed git adapter (git_adapter.py) over the in-memory driver and *)
(* over the read-only driver of a real repository.  Commits are numbered;  *)
(* the content of a file is only whether a secret pattern matches it.      *)
(* Files stand for the lines added in their diff.                          *)
(***************************************************************************)
EXTENDS Integers, FiniteSets, Sequences, SequencesExt

CONSTANTS
    GitFiles,      \* files that may be staged
    SecretFiles,   \* the ones _scan_secrets finds something in
    MaxGitOps      \* bound on mutating operations

GitBranches == {"main", "work"}
Protected == {"main"}                \* PROTECTED_BRANCHES
Deny == {"force_push", "reset_hard"}
AutoAllow == {"status", "fetch"}

VARIABLES
    driver,     \* "mock" or "read_only"
    branchRef,  \* MockGitDriver._branches: commit by branch, 0 for none
    commits,    \* _commits: [branch, files]
    head,       \* _current_branch
    staged,     \* _staged
    remoteRef,  \* _remote_refs
    prs,        \* _prs: [base, head, merged]
    asked,      \* approvals requested: action types
    gitDone     \* _action_history of the adapter

gitVars == <<driver, branchRef, commits, head, staged, remoteRef, prs, asked, gitDone>>

GitInit ==
    /\ driver = "read_only" /\ head = "main" /\ staged = {} /\ prs = <<>>
    /\ branchRef = [b \in GitBranches |-> IF b = "main" THEN 1 ELSE 0]
    /\ commits = <<[branch |-> "main", files |-> {}]>>
    /\ remoteRef = branchRef /\ asked = {} /\ gitDone = <<>>

GitClassify(action) == IF action \in Deny THEN "DENY"
                       ELSE IF action \in AutoAllow THEN "AUTO_ALLOW" ELSE "REQUIRE_APPROVAL"

IsProtectedBranch(b) == b \in Protected

\* _scan_diff_secrets: what is staged before a commit; before a push the
\* worktree, since no driver has diff_range.
SecretsFound(action) == action = "commit" /\ staged \cap SecretFiles # {}

\* The last commit made on the current branch, 0 if there is none.
HeadSha == LET mine == {i \in DOMAIN commits : commits[i].branch = head}
           IN  IF mine = {} THEN 0 ELSE CHOOSE i \in mine : \A j \in mine : j <= i

PassesUnprotected(action, target, expected) ==
    /\ GitClassify(action) # "DENY" /\ ~SecretsFound(action)
    /\ action = "push" /\ expected # 0 => expected = HeadSha

\* The checks of _execute, in order: denied, secrets, the expected head, the
\* protected branch.
Passes(action, target, expected) ==
    /\ GitClassify(action) # "DENY" /\ ~SecretsFound(action)
    /\ action = "push" /\ expected # 0 => expected = HeadSha
    /\ action = "push" => ~IsProtectedBranch(target)

\* The request for approval comes first and stays pending: request returns the
\* record it made, which is never empty, and the adapter goes on.
Ask(action) ==
    asked' = IF GitClassify(action) = "REQUIRE_APPROVAL" THEN asked \cup {action} ELSE asked

\* RealReadOnlyGitDriver answers every mutation with an error.
Writable(action) == driver = "mock" \/ action \in AutoAllow

\* _execute around a driver call; a refusal leaves the repository alone.
Execute(action, target, expected, call) ==
    /\ Len(gitDone) < MaxGitOps /\ Ask(action)
    /\ IF Passes(action, target, expected)
       THEN /\ gitDone' = Append(gitDone, action)
            /\ IF Writable(action) THEN call
               ELSE UNCHANGED <<branchRef, commits, head, staged, remoteRef, prs>>
       ELSE UNCHANGED <<gitDone, branchRef, commits, head, staged, remoteRef, prs>>
    /\ UNCHANGED driver

------------------------------------------------------------------------------
(* The driver. *)

DriverStatus == UNCHANGED <<branchRef, commits, head, staged, remoteRef, prs>>

DriverCreateBranch(b, base) ==
    /\ branchRef' = [branchRef EXCEPT ![b] = IF base \in GitBranches /\ branchRef[base] # 0
                                             THEN branchRef[base] ELSE HeadSha]
    /\ UNCHANGED <<commits, head, staged, remoteRef, prs>>

DriverCheckout(b) ==
    /\ head' = IF branchRef[b] # 0 THEN b ELSE head
    /\ UNCHANGED <<branchRef, commits, staged, remoteRef, prs>>

DriverStage(files) ==
    staged' = staged \cup files /\ UNCHANGED <<branchRef, commits, head, remoteRef, prs>>
DriverUnstage(files) ==
    staged' = staged \ files /\ UNCHANGED <<branchRef, commits, head, remoteRef, prs>>

DriverCommit ==
    IF staged = {} THEN DriverStatus
    ELSE /\ commits' = Append(commits, [branch |-> head, files |-> staged])
         /\ branchRef' = [branchRef EXCEPT ![head] = Len(commits) + 1]
         /\ staged' = {}
         /\ UNCHANGED <<head, remoteRef, prs>>

DriverPush(b) ==
    /\ remoteRef' = [remoteRef EXCEPT ![b] = branchRef[b]]
    /\ UNCHANGED <<branchRef, commits, head, staged, prs>>

DriverOpenPr(base) ==
    /\ prs' = Append(prs, [base |-> base, head |-> head, merged |-> FALSE])
    /\ UNCHANGED <<branchRef, commits, head, staged, remoteRef>>

\* A merge commits to the base in the local repository only.
DriverMergePr(i) ==
    IF i \notin DOMAIN prs THEN DriverStatus
    ELSE /\ prs' = [prs EXCEPT ![i].merged = TRUE]
         /\ commits' = Append(commits, [branch |-> prs[i].base, files |-> {}])
         /\ branchRef' = [branchRef EXCEPT ![prs[i].base] = Len(commits) + 1]
         /\ UNCHANGED <<head, staged, remoteRef>>

GitUse(d) == gitDone = <<>> /\ driver' = d
             /\ UNCHANGED <<branchRef, commits, head, staged, remoteRef, prs, asked, gitDone>>

GitNext ==
    \/ \E d \in {"mock", "read_only"} : GitUse(d)
    \/ \E a \in Deny \cup AutoAllow : Execute(a, "", 0, DriverStatus)
    \/ \E b \in GitBranches : Execute("checkout_branch", b, 0, DriverCheckout(b))
    \/ \E base \in GitBranches \cup {"HEAD"} :
         Execute("create_branch", "work", 0, DriverCreateBranch("work", base))
    \/ \E files \in SUBSET GitFiles \ {{}} :
         \/ Execute("stage_files", "", 0, DriverStage(files))
         \/ Execute("unstage_files", "", 0, DriverUnstage(files))
    \/ Execute("commit", "", 0, DriverCommit)
    \/ \E b \in GitBranches, expected \in 0..Len(commits) :
         Execute("push", b, expected, DriverPush(b))
    \/ \E base \in GitBranches : Execute("open_pr", base, 0, DriverOpenPr(base))
    \/ \E i \in 1..2 : Execute("merge_pr", "", 0, DriverMergePr(i))

GitSpec == GitInit /\ [][GitNext]_gitVars

------------------------------------------------------------------------------
GitActions == Deny \cup AutoAllow \cup {"checkout_branch", "create_branch", "stage_files", "unstage_files",
                                       "commit", "push", "open_pr", "merge_pr"}

\* The state keeps its shape.
GitTypeOK ==
    /\ driver \in {"mock", "read_only"} /\ head \in GitBranches /\ staged \subseteq GitFiles
    /\ branchRef \in [GitBranches -> Nat] /\ remoteRef \in [GitBranches -> Nat]
    /\ commits \in Seq([branch : GitBranches, files : SUBSET GitFiles])
    /\ prs \in Seq([base : GitBranches, head : GitBranches, merged : BOOLEAN])
    /\ asked \subseteq GitActions /\ gitDone \in Seq(GitActions)

\* Whatever sequence of operations the adapter is given, no commit holds a file
\* with a secret, the remote's protected branches never move (a merge changes
\* them only locally), a read-only repository stays as it was, and nothing that
\* changes a repository was done without asking for an approval first.
GitGoverned ==
    /\ \A i \in DOMAIN commits : commits[i].files \cap SecretFiles = {}
    /\ \A b \in Protected : remoteRef[b] = 1
    /\ driver = "read_only" => Len(commits) = 1 /\ staged = {} /\ prs = <<>>
    /\ ToSet(gitDone) \subseteq AutoAllow \cup asked
=============================================================================
