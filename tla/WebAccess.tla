------------------------------ MODULE WebAccess ------------------------------
(***************************************************************************)
(* What the program may reach: the egress policy (network_policy.py), the   *)
(* governed browser (browser_adapter.py) and the governed desktop           *)
(* (computer_use_adapter.py).  A URL is what the checks read of it; names   *)
(* and texts are the classes the pattern lists put them in.                 *)
(***************************************************************************)
EXTENDS Integers, FiniteSets, Sequences

CONSTANTS
    Hosts,      \* host names
    MaxNav,     \* max_navigations of the browser adapter
    MaxWebOps   \* bound on logged operations

ASSUME NavAssumption == MaxNav \in Nat

BlockedSchemes == {"file"}
\* The address a name resolves to; "none" when it does not resolve.
Addresses == {"public", "private", "metadata", "invalid", "none"}
Urls == [scheme : {"https", "file", "gopher"}, port : {443, 8443}, host : Hosts]

VARIABLES
    netAllow, netDeny,   \* _domain_allowlist, _domain_denylist
    netPorts,            \* _port_allowlist
    netDefault,          \* _deny_by_default
    netLog,              \* _decision_log: [url, method, ip, given, allowed]
    siteAllow,           \* domain_allowlist of the browser adapter
    navs,                \* _nav_count
    webDone,             \* what the browser driver was asked to do
    apps,                \* app_allowlist of the desktop adapter
    focused,             \* MockComputerUseDriver._current_app
    typed                \* text classes typed

webVars == <<netAllow, netDeny, netPorts, netDefault, netLog, siteAllow, navs, webDone, apps,
             focused, typed>>
netVars == <<netAllow, netDeny, netPorts, netDefault, netLog>>
siteVars == <<siteAllow, navs, webDone>>
deskVars == <<apps, focused, typed>>

WebInit ==
    /\ netAllow = {} /\ netDeny = {} /\ netPorts = {443} /\ netDefault = TRUE /\ netLog = {}
    /\ siteAllow = {} /\ navs = 0 /\ webDone = {}
    /\ apps = {} /\ focused = "Finder" /\ typed = {}

------------------------------------------------------------------------------
(* network_policy.py *)

PolicySetup(change) ==
    /\ netLog = {}
    /\ \/ change = "open" /\ netDefault' = FALSE /\ UNCHANGED <<netAllow, netDeny, netPorts>>
       \/ \E h \in Hosts : /\ netAllow' = IF change = "allow" THEN netAllow \cup {h} ELSE netAllow
                           /\ netDeny' = IF change = "deny" THEN netDeny \cup {h} ELSE netDeny
                           /\ change \in {"allow", "deny"} /\ UNCHANGED <<netPorts, netDefault>>
       \/ change = "port" /\ netPorts' = netPorts \cup {8443}
                          /\ UNCHANGED <<netAllow, netDeny, netDefault>>
    /\ UNCHANGED <<netLog, siteVars, deskVars>>

RequestFits(url, method) ==
    /\ url.scheme \notin BlockedSchemes /\ url.scheme \in {"https", "http"}
    /\ url.port \in netPorts /\ method \in {"GET", "HEAD"}

AddressFits(url, ip) == ip \notin {"none", "invalid", "metadata"} /\ (ip = "private" => url.host \in netAllow)

EvaluateListedFirst(url, method, ip, given) ==
    /\ RequestFits(url, method)
    /\ \/ url.host \in netAllow /\ ~given
       \/ url.host \notin netDeny /\ AddressFits(url, ip) /\ (netDefault => url.host \in netAllow)

\* evaluate: scheme, port, method, denied names; a listed name is allowed at once
\* when the caller gave no address; then the address, given or resolved; then
\* deny by default.
EvaluateUrl(url, method, ip, given) ==
    /\ RequestFits(url, method) /\ url.host \notin netDeny
    /\ \/ url.host \in netAllow /\ ~given
       \/ AddressFits(url, ip) /\ (netDefault => url.host \in netAllow)

PolicyEvaluate(url, method, ip, given) ==
    /\ Cardinality(netLog) < 1 /\ (given => ip # "none")
    /\ netLog' = netLog \cup {[url |-> url, method |-> method, ip |-> ip, given |-> given,
                               allowed |-> EvaluateUrl(url, method, ip, given)]}
    /\ UNCHANGED <<netAllow, netDeny, netPorts, netDefault, siteVars, deskVars>>

------------------------------------------------------------------------------
(* browser_adapter.py: a target is a host or "file"; risky if a high-risk word is in it *)

CheckDomain(target) == target = "file" \/ target \in siteAllow

BrowserSetup(h) ==
    /\ webDone = {} /\ siteAllow' = siteAllow \cup {h}
    /\ UNCHANGED <<netVars, navs, webDone, deskVars>>

BrowserDo(op) == /\ Cardinality(webDone) < MaxWebOps /\ webDone' = webDone \cup {op}
                 /\ UNCHANGED <<netVars, siteAllow, deskVars>>

Navigate(target, risky) ==
    /\ CheckDomain(target) /\ navs < MaxNav /\ ~risky
    /\ navs' = navs + 1 /\ BrowserDo([op |-> "navigate", at |-> target, risky |-> risky])

Interact(op, risky) ==
    /\ op \in {"click", "type"} => ~risky
    /\ BrowserDo([op |-> op, at |-> "page", risky |-> risky]) /\ UNCHANGED navs

Upload(inside) ==
    inside /\ BrowserDo([op |-> "upload", at |-> "sandbox", risky |-> FALSE]) /\ UNCHANGED navs

\* A download is checked for its domain and not counted.
Download(target) ==
    CheckDomain(target) /\ BrowserDo([op |-> "download", at |-> target, risky |-> FALSE])
    /\ UNCHANGED navs

------------------------------------------------------------------------------
(* computer_use_adapter.py *)

AppNames == {"Finder", "Notes", "Terminal"}
ForbiddenApps == {"Terminal"}

\* _check_app: forbidden names first; an empty list allows every other app.
CheckApp(app) == app \notin ForbiddenApps /\ (apps = {} \/ app \in apps)

DesktopSetup(app) ==
    /\ apps = {} /\ typed = {} /\ focused = "Finder" /\ apps' = {app}
    /\ UNCHANGED <<netVars, siteVars, focused, typed>>
FocusApp(app) ==
    CheckApp(app) /\ focused' = app /\ UNCHANGED <<netVars, siteVars, apps, typed>>
TypeText(text) ==
    text # "forbidden" /\ typed' = typed \cup {<<focused, text>>}
    /\ UNCHANGED <<netVars, siteVars, apps, focused>>

PolicyNext ==
    \/ \E change \in {"allow", "deny", "open", "port"} : PolicySetup(change)
    \/ \E url \in Urls, method \in {"GET", "POST"}, ip \in Addresses, given \in BOOLEAN :
         PolicyEvaluate(url, method, ip, given)
BrowserNext ==
    \/ \E h \in Hosts : BrowserSetup(h)
    \/ \E target \in Hosts \cup {"file"} : Download(target) \/ \E risky \in BOOLEAN : Navigate(target, risky)
    \/ \E op \in {"click", "type", "read_page"}, risky \in BOOLEAN : Interact(op, risky)
    \/ \E inside \in BOOLEAN : Upload(inside)
DesktopNext ==
    \/ \E app \in AppNames : DesktopSetup(app) \/ FocusApp(app)
    \/ \E text \in {"plain", "forbidden"} : TypeText(text)
WebSpec == WebInit /\ [][PolicyNext \/ BrowserNext \/ DesktopNext]_webVars

WebTypeOK ==
    /\ netAllow \subseteq Hosts /\ netDeny \subseteq Hosts /\ netPorts \subseteq {443, 8443}
    /\ netDefault \in BOOLEAN
    /\ netLog \subseteq [url : Urls, method : {"GET", "POST"}, ip : Addresses, given : BOOLEAN,
                         allowed : BOOLEAN]
    /\ siteAllow \subseteq Hosts /\ navs \in Nat
    /\ webDone \subseteq [op : {"navigate", "click", "type", "read_page", "upload", "download"},
                          at : Hosts \cup {"file", "page", "sandbox"}, risky : BOOLEAN]
    /\ apps \subseteq AppNames /\ focused \in AppNames
    /\ typed \subseteq AppNames \X {"plain", "forbidden"}

------------------------------------------------------------------------------
\* A request the policy lets through uses an admitted scheme, port and method,
\* names no denied host, goes to a listed host unless the default is open, and to
\* a known metadata or unlisted private address never; the browser went only to
\* its own sites or files, within its limit, and clicked nothing risky; and
\* nothing was typed into an app that is forbidden, or that is outside the list
\* in force unless it had the focus from the start.
AccessGoverned ==
    /\ \A d \in netLog : d.allowed =>
         /\ RequestFits(d.url, d.method) /\ d.url.host \notin netDeny
         /\ netDefault => d.url.host \in netAllow
         /\ d.given \/ d.url.host \notin netAllow =>
              d.ip # "metadata" /\ (d.ip = "private" => d.url.host \in netAllow)
    /\ navs <= MaxNav
    /\ \A a \in webDone : /\ a.op \in {"navigate", "download"} => a.at \in siteAllow \cup {"file"}
                          /\ a.risky => a.op = "read_page"
    /\ \A t \in typed : /\ t[1] \notin ForbiddenApps /\ t[2] # "forbidden"
                        /\ t[1] \in apps \/ apps = {} \/ t[1] = "Finder"
=============================================================================
