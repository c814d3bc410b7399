------------------------------- MODULE Sandbox -------------------------------
(***************************************************************************)
(* The production sandbox (sandbox_v2.py).  An invocation goes through the  *)
(* checks of its backend, a process group is started, and the caller waits  *)
(* for it with a timeout.  Arguments are what the checks tell apart.  A     *)
(* command may fork children, which hold its pipes or have closed them.     *)
(***************************************************************************)
EXTENDS Integers, FiniteSets

CONSTANTS
    Invocations,   \* invocation ids
    EscapeTests    \* escape tests that make isolation accepted

Backends == {"macos", "jail", "test"}
Commands == {"plain", "metachar", "forbidden", "empty"}

VARIABLES
    sbHost,     \* [darwin, exec]: the platform, and whether sandbox-exec is there
    enforced,   \* MacOSSandboxBackend._enforced
    escapes,    \* _escape_tests
    group,      \* by invocation: the members of its process group alive
    confined,   \* by invocation: started under a sandbox profile
    receipt,    \* by invocation: "none" until execute returned
    profile,    \* profile files on disk
    call        \* by invocation: its backend once execute was called

sandboxVars == <<sbHost, enforced, escapes, group, confined, receipt, profile, call>>

SandboxInit ==
    /\ sbHost = [darwin |-> TRUE, exec |-> TRUE] /\ enforced = FALSE /\ escapes = 0
    /\ group = [i \in Invocations |-> {}] /\ confined = [i \in Invocations |-> FALSE]
    /\ receipt = [i \in Invocations |-> "none"] /\ profile = {}
    /\ call = [i \in Invocations |-> "none"]

SandboxSetup(host) ==
    /\ \A i \in Invocations : call[i] = "none"
    /\ sbHost' = host
    /\ UNCHANGED <<enforced, escapes, group, confined, receipt, profile, call>>

\* What each backend refuses before a process exists: the jail looks at the
\* arguments, the macOS one needs sandbox-exec and a command.
Refuses(b, cmd) ==
    \/ b = "macos" /\ (~sbHost.exec \/ cmd = "empty")
    \/ b = "jail" /\ cmd \in {"metachar", "forbidden", "empty"}
    \/ b = "test" /\ cmd = "empty"

Refuse(i, b, cmd) ==
    /\ call[i] = "none" /\ Refuses(b, cmd)
    /\ call' = [call EXCEPT ![i] = b] /\ receipt' = [receipt EXCEPT ![i] = "error"]
    /\ UNCHANGED <<sbHost, enforced, escapes, group, confined, profile>>

\* Popen in a session of its own; macOS writes a profile and notes enforcement
\* before it tries.
SpawnSandboxed(i, b, cmd, children) ==
    /\ call[i] = "none" /\ ~Refuses(b, cmd)
    /\ call' = [call EXCEPT ![i] = b]
    /\ group' = [group EXCEPT ![i] = {"main"} \cup children]
    /\ confined' = [confined EXCEPT ![i] = b = "macos"]
    /\ enforced' = (enforced \/ b = "macos")
    /\ profile' = IF b = "macos" THEN profile \cup {i} ELSE profile
    /\ UNCHANGED <<sbHost, escapes, receipt>>

\* Popen raises: an error, with the profile gone and enforcement noted.
SpawnFails(i, b, cmd) ==
    /\ call[i] = "none" /\ ~Refuses(b, cmd)
    /\ call' = [call EXCEPT ![i] = b] /\ receipt' = [receipt EXCEPT ![i] = "error"]
    /\ enforced' = (enforced \/ b = "macos")
    /\ UNCHANGED <<sbHost, escapes, group, confined, profile>>

\* communicate returns: the command ended and everyone who held its pipes.
Completes(i, code) ==
    /\ group[i] # {} /\ receipt[i] = "none"
    /\ group' = [group EXCEPT ![i] = @ \cap {"detached"}]
    /\ receipt' = [receipt EXCEPT ![i] = code]
    /\ profile' = profile \ {i}
    /\ UNCHANGED <<sbHost, enforced, escapes, confined, call>>

KillMain(i, b) == group[i] \ {"main"}

\* A timeout: the sandboxes kill the whole group, the test backend its child
\* process only.
KilledBy(i, b) == IF b = "test" THEN group[i] \ {"main"} ELSE {}

TimesOut(i) ==
    /\ group[i] # {} /\ receipt[i] = "none"
    /\ group' = [group EXCEPT ![i] = KilledBy(i, call[i])]
    /\ receipt' = [receipt EXCEPT ![i] = "timeout"]
    /\ profile' = profile \ {i}
    /\ UNCHANGED <<sbHost, enforced, escapes, confined, call>>

\* run_escape_test counts an invocation that did not exit with 0; one that never
\* ran counts as well.
RunEscapeTest(i) ==
    /\ escapes < EscapeTests /\ receipt[i] # "none" /\ call[i] = "macos"
    /\ receipt[i] # "ok" /\ escapes' = escapes + 1
    /\ UNCHANGED <<sbHost, enforced, group, confined, receipt, profile, call>>

\* probe_capability.
Flags ==
    IF ~sbHost.darwin \/ ~sbHost.exec THEN {"WORKSPACE_JAIL_ENFORCED"}
    ELSE {"OS_SANDBOX_CAPABLE"}
         \cup (IF enforced THEN {"OS_SANDBOX_ENFORCED"} ELSE {})
         \cup (IF escapes >= EscapeTests THEN {"FULL_OS_ISOLATION_ACCEPTED"} ELSE {})

SandboxNext ==
    \/ \E d, e \in BOOLEAN : SandboxSetup([darwin |-> d, exec |-> e])
    \/ \E i \in Invocations :
         \/ \E b \in Backends, cmd \in Commands :
              \/ Refuse(i, b, cmd) \/ SpawnFails(i, b, cmd)
              \/ \E children \in SUBSET {"child", "detached"} : SpawnSandboxed(i, b, cmd, children)
         \/ \E code \in {"ok", "failed"} : Completes(i, code)
         \/ TimesOut(i) \/ RunEscapeTest(i)
SandboxSpec == SandboxInit /\ [][SandboxNext]_sandboxVars

SandboxTypeOK ==
    /\ sbHost \in [darwin : BOOLEAN, exec : BOOLEAN]
    /\ enforced \in BOOLEAN /\ escapes \in Nat
    /\ group \in [Invocations -> SUBSET {"main", "child", "detached"}]
    /\ confined \in [Invocations -> BOOLEAN]
    /\ receipt \in [Invocations -> {"none", "ok", "failed", "error", "timeout"}]
    /\ profile \subseteq Invocations /\ call \in [Invocations -> Backends \cup {"none"}]

------------------------------------------------------------------------------
\* Whatever runs at the same time: no member of a process group outlives a
\* timeout of the sandboxes, and nothing but a child that let go of its pipes
\* outlives a completion; no profile stays on disk after a receipt; and what the
\* macOS backend runs is confined, or nothing runs.
SandboxSound ==
    \A i \in Invocations :
      /\ receipt[i] = "timeout" /\ call[i] \in {"macos", "jail"} => group[i] = {}
      /\ receipt[i] \in {"ok", "failed", "error"} => group[i] \subseteq {"detached"}
      /\ receipt[i] # "none" => i \notin profile
      /\ call[i] = "macos" /\ group[i] # {} => confined[i] /\ sbHost.exec
=============================================================================
