----------------------------- MODULE ShmKvStore -----------------------------
(***************************************************************************)
(* What a shared-memory key/value zone promises its users: a map from keys *)
(* to versioned values.  A write or a delete takes effect only when it     *)
(* names the entry's current version (0 for an absent entry); a write      *)
(* moves the version one ahead, modulo the width of the counter.  Other    *)
(* entries never change; with an eviction policy, a write may lose some of *)
(* them to make room, and a write that finds no room may lose everything.  *)
(***************************************************************************)
EXTENDS Integers

CONSTANTS Keys, Values, CasWidth

VARIABLES
    store,      \* the map: key |-> [val, cas]
    evicting,   \* the zone has an eviction policy
    sound,      \* FALSE once the zone's memory is damaged
    reply       \* the answer to the last operation; of a write, its version too

vars == <<store, evicting, sound, reply>>

Version(k) == IF k \in DOMAIN store THEN store[k].cas ELSE 0

Without(K) == [k \in DOMAIN store \ K |-> store[k]]

Losable(K) == IF evicting THEN SUBSET K ELSE {{}}

Init ==
    /\ store = [k \in {} |-> {}]
    /\ evicting \in BOOLEAN
    /\ sound = TRUE
    /\ reply = <<"none">>

Write(k, v, c) ==
    /\ sound
    /\ c = Version(k)
    /\ \E lost \in Losable(DOMAIN store \ {k}) :
          LET kept == Without(lost)
              node == [val |-> v, cas |-> (c + 1) % CasWidth]
          IN store' = [x \in DOMAIN kept \cup {k} |->
                          IF x = k THEN node ELSE kept[x]]
    /\ reply' = <<"written", c>>
    /\ UNCHANGED <<evicting, sound>>

WriteFails(k, c) ==
    /\ sound
    /\ c = Version(k)
    /\ store' = IF evicting THEN Without(DOMAIN store) ELSE store
    /\ reply' = <<"nomem">>
    /\ UNCHANGED <<evicting, sound>>

Delete(k, c) ==
    /\ sound
    /\ k \in DOMAIN store
    /\ c = Version(k)
    /\ store' = Without({k})
    /\ reply' = <<"written", c>>
    /\ UNCHANGED <<evicting, sound>>

Refuse(k, c) ==
    /\ sound
    /\ c # Version(k) \/ k \notin DOMAIN store
    /\ reply' = <<"mismatch">>
    /\ UNCHANGED <<store, evicting, sound>>

Read(k) ==
    /\ sound
    /\ reply' \in {<<"read">>, <<"trap">>} \/ (k \notin DOMAIN store /\ reply' = <<"notfound">>)
    /\ UNCHANGED <<store, evicting, sound>>

\* The damage an entry evicted by its own replacement does.
Damage ==
    /\ sound
    /\ evicting
    /\ sound' = FALSE
    /\ store' = Without(DOMAIN store)
    /\ reply' = <<"undefined">>
    /\ UNCHANGED evicting

Next ==
    \/ \E k \in Keys, c \in 0 .. CasWidth - 1 :
          \/ \E v \in Values : Write(k, v, c)
          \/ WriteFails(k, c)
          \/ Delete(k, c)
          \/ Refuse(k, c)
    \/ \E k \in Keys : Read(k)
    \/ Damage

Spec == Init /\ [][Next]_vars
============================================================================
