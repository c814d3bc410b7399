----------------------------- MODULE Capabilities ----------------------------
(***************************************************************************)
(* The capability registry (capabilities.py): scores derived from a history *)
(* of outcomes kept in memory and in the store.  An outcome is keyed by the *)
(* caller ("" for none); its evidence is how many references came with it.  *)
(* Confidence is counted in tenths.  A save may fail after the entry is in  *)
(* memory; a restart rebuilds the memory from the store.                    *)
(***************************************************************************)
EXTENDS Integers, FiniteSets, Sequences

CONSTANTS
    Caps,         \* capability ids
    OutcomeKeys,  \* idempotency keys, "" among them
    MaxOutcomes,  \* bound on outcomes stored or held
    MaxRestarts   \* bound on restarts

VARIABLES
    capScores,    \* _scores: [conf, evidence] of the registered capabilities
    capHistory,   \* _mission_history: entries [key, ev, saved] by capability
    capStore,     \* capability_history records by capability: [key, ev]
    capReset,     \* capabilities registered over a history in this process
    capRestarts

capVars == <<capScores, capHistory, capStore, capReset, capRestarts>>

CapInit ==
    /\ capScores = [c \in {} |-> {}] /\ capHistory = [c \in Caps |-> <<>>]
    /\ capStore = [c \in Caps |-> <<>>] /\ capReset = {} /\ capRestarts = 0

Put(f, c, v) == [d \in DOMAIN f \cup {c} |-> IF d = c THEN v ELSE f[d]]

\* The confidence in tenths of a number of evidenced outcomes.
Confidence(n) == IF n >= 3 THEN (IF n > 10 THEN 10 ELSE n) ELSE 3

Evidenced(h) == Cardinality({i \in DOMAIN h : h[i].ev > 0})
References(h) == Cardinality(UNION {{i} \X (1..h[i].ev) : i \in DOMAIN h})

\* register_v2 starts a new score and drops the history held in memory.
RegisterV2(c) ==
    /\ capScores' = Put(capScores, c, [conf |-> 5, evidence |-> 0])
    /\ capReset' = IF capHistory[c] # <<>> THEN capReset \cup {c} ELSE capReset
    /\ capHistory' = [capHistory EXCEPT ![c] = <<>>]
    /\ UNCHANGED <<capStore, capRestarts>>

Held(c, key) == \E i \in DOMAIN capHistory[c] : capHistory[c][i].key = key
Stored(key) == \E c \in Caps : \E i \in DOMAIN capStore[c] : capStore[c][i].key = key

KnownInMemory(c, key) == key # "" /\ Held(c, key)

\* A keyed outcome seen before, by this capability in memory or by any
\* capability in the store, is not recorded again.
Known(c, key) == key # "" /\ (Held(c, key) \/ Stored(key))

\* record_history: memory first, then the store, where the save may fail.
HistoryAfter(c, key, ev, saved) ==
    IF Known(c, key) THEN capHistory[c]
    ELSE Append(capHistory[c], [key |-> key, ev |-> ev, saved |-> saved])
StoreAfter(c, key, ev, saved) ==
    IF Known(c, key) \/ ~saved THEN capStore
    ELSE [capStore EXCEPT ![c] = Append(@, [key |-> key, ev |-> IF ev > 0 THEN 1 ELSE 0])]

StoredOutcomes == UNION {{c} \X DOMAIN capStore[c] : c \in Caps}
RoomForOutcome(c) == Cardinality(StoredOutcomes) < MaxOutcomes /\ Len(capHistory[c]) < MaxOutcomes

RecordHistory(c, key, ev, saved) ==
    /\ RoomForOutcome(c) /\ ev <= 1
    /\ capHistory' = [capHistory EXCEPT ![c] = HistoryAfter(c, key, ev, saved)]
    /\ capStore' = StoreAfter(c, key, ev, saved)
    /\ UNCHANGED <<capScores, capReset, capRestarts>>

\* The entry update_score writes the references to: the one with the key, or the
\* last one when memory has none.
TargetEntry(h, key) ==
    IF key # "" /\ \E i \in DOMAIN h : h[i].key = key
    THEN CHOOSE i \in DOMAIN h : h[i].key = key /\ \A j \in 1..(i - 1) : h[j].key # key
    ELSE Len(h)

\* update_score: record, set the references, recompute the score.
UpdateScore(c, key, ev) ==
    /\ c \in DOMAIN capScores /\ RoomForOutcome(c)
    /\ LET h == HistoryAfter(c, key, ev, TRUE)
           full == IF h = <<>> THEN h ELSE [h EXCEPT ![TargetEntry(h, key)].ev = ev]
       IN  /\ capHistory' = [capHistory EXCEPT ![c] = full]
           /\ capScores' = IF full = <<>> THEN capScores
                           ELSE [capScores EXCEPT ![c] = [conf |-> Confidence(Evidenced(full)),
                                                          evidence |-> Evidenced(full)]]
    /\ capStore' = StoreAfter(c, key, ev, TRUE)
    /\ UNCHANGED <<capReset, capRestarts>>

\* get_score of a score untouched for over a week lowers it; every read does.
GetScoreOverdue(c, tenths) ==
    /\ c \in DOMAIN capScores
    /\ capScores' = [capScores EXCEPT ![c].conf = IF @ - tenths > 1 THEN @ - tenths ELSE 1]
    /\ UNCHANGED <<capHistory, capStore, capReset, capRestarts>>

\* _load_history and _recompute_scores of a new process.
LoadedHistory(c) ==
    [i \in DOMAIN capStore[c] |->
        [key |-> capStore[c][i].key, ev |-> capStore[c][i].ev, saved |-> TRUE]]

RestartRegistry ==
    /\ capRestarts < MaxRestarts /\ capRestarts' = capRestarts + 1
    /\ capHistory' = [c \in Caps |-> LoadedHistory(c)]
    /\ capScores' = [c \in {d \in Caps : LoadedHistory(d) # <<>>} |->
                       [conf |-> Confidence(References(LoadedHistory(c))),
                        evidence |-> References(LoadedHistory(c))]]
    /\ capReset' = {}
    /\ UNCHANGED <<capStore>>

CapNext ==
    \/ \E c \in Caps : RegisterV2(c) \/ GetScoreOverdue(c, 4)
    \/ \E c \in Caps, key \in OutcomeKeys, ev \in {0, 2} :
         \/ UpdateScore(c, key, ev)
         \/ \E saved \in BOOLEAN : RecordHistory(c, key, ev, saved)
    \/ RestartRegistry

CapSpec == CapInit /\ [][CapNext]_capVars

------------------------------------------------------------------------------
\* How many of the first outcomes held were saved.
SavedUpTo(h, n) == Cardinality({j \in 1..n : h[j].saved})

\* However outcomes are recorded, retried, lost by a failing save and reloaded:
\* a key is stored once, whichever capability used it; the outcomes a
\* capability holds and saved are, in order, the ones the store has for it
\* (unless it was registered again over its history); and a score never counts
\* more evidence than there are outcomes stored or held.
OutcomesCountedOnce ==
    /\ \A c, d \in Caps : \A i \in DOMAIN capStore[c], j \in DOMAIN capStore[d] :
         capStore[c][i].key = capStore[d][j].key /\ capStore[c][i].key # "" => c = d /\ i = j
    /\ \A c \in Caps \ capReset :
         LET h == capHistory[c]
         IN  /\ SavedUpTo(h, Len(h)) = Len(capStore[c])
             /\ \A i \in DOMAIN h : h[i].saved => h[i].key = capStore[c][SavedUpTo(h, i)].key
    /\ \A c \in DOMAIN capScores : /\ capScores[c].conf \in 1..10
                                   /\ capScores[c].evidence <= Len(capHistory[c])
=============================================================================
