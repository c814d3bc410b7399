---------------------------- MODULE MessageAdapter ---------------------------
(***************************************************************************)
(* The governed message adapter (message_adapter.py).  A recipient is what  *)
(* the validation tells apart (its format, whether it and its domain are on *)
(* the lists), a body what the scan tells apart.  Threads may send at the   *)
(* same time: the keys already sent are read before the provider is called  *)
(* and written after it answers.                                            *)
(***************************************************************************)
EXTENDS Integers, FiniteSets

CONSTANTS
    Senders,     \* threads that call send
    Drafts,      \* draft ids
    MaxSends     \* bound on deliveries of a draft

ASSUME DraftsAssumption == "none" \notin Drafts

\* [at: has an "@", listed: in recipient_allowlist, domain: in domain_allowlist]
Recipients == [at : BOOLEAN, listed : BOOLEAN, domain : BOOLEAN]
Bodies == {"clean", "sensitive", "forbidden"}
MessageConfigs == [external : BOOLEAN, approvals : BOOLEAN, scan : BOOLEAN,
                   byRecipient : BOOLEAN, byDomain : BOOLEAN]

VARIABLES
    msgCfg,     \* the constructor arguments
    drafts,     \* _drafts: [to, body] of the drafts made
    sentKeys,   \* _sent_keys: drafts (a key is the draft and its digest)
    sender,     \* by thread: the draft it is at the provider with, or "none"
    delivered,  \* by draft: calls of provider.send that reached it
    captured,   \* drafts captured without a call
    overlapped  \* drafts two calls had at the provider at once, or one raised

msgVars == <<msgCfg, drafts, sentKeys, sender, delivered, captured, overlapped>>

MessageInit ==
    /\ msgCfg = [external |-> FALSE, approvals |-> FALSE, scan |-> TRUE,
                 byRecipient |-> FALSE, byDomain |-> FALSE]
    /\ drafts = [d \in {} |-> {}] /\ sentKeys = {} /\ captured = {} /\ overlapped = {}
    /\ sender = [t \in Senders |-> "none"] /\ delivered = [d \in Drafts |-> 0]

MessageSetup(cfg) ==
    /\ DOMAIN drafts = {} /\ msgCfg' = cfg
    /\ UNCHANGED <<drafts, sentKeys, sender, delivered, captured, overlapped>>

MakeDraft(d, to, body) ==
    /\ d \notin DOMAIN drafts
    /\ drafts' = [e \in DOMAIN drafts \cup {d} |-> IF e = d THEN [to |-> to, body |-> body]
                                                            ELSE drafts[e]]
    /\ UNCHANGED <<msgCfg, sentKeys, sender, delivered, captured, overlapped>>

ValidateEither(r) ==
    r.at /\ (msgCfg.byRecipient => r.listed \/ (msgCfg.byDomain /\ r.domain))

\* _validate_recipient: with both lists on, the domain must be allowed even for
\* a listed recipient.
ValidateRecipient(r) ==
    /\ r.at
    /\ msgCfg.byRecipient => r.listed \/ (msgCfg.byDomain /\ r.domain)
    /\ msgCfg.byDomain => r.domain

ScanContent(body) == msgCfg.scan => body # "forbidden"

\* The checks of send up to the gate: a key not yet sent, then the recipients,
\* then the content.
MaySend(d) ==
    /\ d \in DOMAIN drafts /\ d \notin sentKeys
    /\ ValidateRecipient(drafts[d].to) /\ ScanContent(drafts[d].body)

\* Sending disabled: the message is captured and its key used up.
Capture(t, d) ==
    /\ sender[t] = "none" /\ MaySend(d) /\ ~msgCfg.external
    /\ sentKeys' = sentKeys \cup {d} /\ captured' = captured \cup {d}
    /\ UNCHANGED <<msgCfg, drafts, sender, delivered, overlapped>>

\* Sending enabled: only a forced send goes on.  Without the flag the request for
\* an approval reads draft.content, which drafts lack, and raises; without an
\* engine the send is refused.  Either way nothing changes.
StartSend(t, d) ==
    /\ sender[t] = "none" /\ MaySend(d) /\ msgCfg.external /\ delivered[d] < MaxSends
    /\ sender' = [sender EXCEPT ![t] = d]
    /\ overlapped' = IF \E u \in Senders : sender[u] = d THEN overlapped \cup {d} ELSE overlapped
    /\ UNCHANGED <<msgCfg, drafts, sentKeys, delivered, captured>>

ProviderAnswersUnkeyed(t) ==
    /\ sender[t] # "none"
    /\ delivered' = [delivered EXCEPT ![sender[t]] = @ + 1]
    /\ sentKeys' = sentKeys
    /\ sender' = [sender EXCEPT ![t] = "none"]
    /\ UNCHANGED <<msgCfg, drafts, captured, overlapped>>

ProviderAnswers(t) ==
    /\ sender[t] # "none"
    /\ delivered' = [delivered EXCEPT ![sender[t]] = @ + 1]
    /\ sentKeys' = sentKeys \cup {sender[t]}
    /\ sender' = [sender EXCEPT ![t] = "none"]
    /\ UNCHANGED <<msgCfg, drafts, captured, overlapped>>

\* The provider delivered the message or not, and raised: the key is not kept.
ProviderRaises(t, reached) ==
    /\ sender[t] # "none"
    /\ delivered' = [delivered EXCEPT ![sender[t]] = IF reached THEN @ + 1 ELSE @]
    /\ overlapped' = overlapped \cup {sender[t]}
    /\ sender' = [sender EXCEPT ![t] = "none"]
    /\ UNCHANGED <<msgCfg, drafts, sentKeys, captured>>

MessageNext ==
    \/ \E cfg \in MessageConfigs : MessageSetup(cfg)
    \/ \E d \in Drafts, to \in Recipients, body \in Bodies : MakeDraft(d, to, body)
    \/ \E t \in Senders :
         \/ \E d \in Drafts : Capture(t, d) \/ StartSend(t, d)
         \/ ProviderAnswers(t)
         \/ \E reached \in BOOLEAN : ProviderRaises(t, reached)
MessageSpec == MessageInit /\ [][MessageNext]_msgVars

MessageTypeOK ==
    /\ msgCfg \in MessageConfigs /\ DOMAIN drafts \subseteq Drafts
    /\ drafts \in [DOMAIN drafts -> [to : Recipients, body : Bodies]]
    /\ sentKeys \subseteq Drafts /\ captured \subseteq Drafts /\ overlapped \subseteq Drafts
    /\ sender \in [Senders -> Drafts \cup {"none"}] /\ delivered \in [Drafts -> Nat]

------------------------------------------------------------------------------
\* Nothing reaches the provider while external sending is disabled; what does is
\* addressed to a recipient both lists admit and, while the scan is on, has no
\* forbidden content; and a draft is delivered twice only when two sends of it
\* were at the provider at once or the provider raised.
MessageSound ==
    \A d \in Drafts :
      /\ delivered[d] > 0 \/ (\E t \in Senders : sender[t] = d) =>
           /\ msgCfg.external /\ d \notin captured
           /\ msgCfg.byDomain => drafts[d].to.domain
           /\ msgCfg.byRecipient => drafts[d].to.listed \/ drafts[d].to.domain
           /\ msgCfg.scan => drafts[d].body # "forbidden"
      /\ delivered[d] > 1 => d \in overlapped
=============================================================================
