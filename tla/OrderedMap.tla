----------------------------- MODULE OrderedMap -----------------------------
(***************************************************************************)
(* What the B+tree of mdb.c promises: an ordered map with cursors.  A      *)
(* cursor is on a key, or in the gap before one, where the deletion of its *)
(* key leaves it.  Writes through the database or through another cursor   *)
(* do not move it.  A cursor whose last search failed may be anywhere.     *)
(***************************************************************************)
EXTENDS Integers, FiniteSetsExt

CONSTANTS Keys,        \* numbers from 1 on
          CursorIds

VARIABLES map,         \* key -> value
          at           \* where each cursor is

End == Max(Keys) + 1

On(k) == [on |-> TRUE, key |-> k]

\* In the gap before key k, or behind the last key.
Gap(k) == [on |-> FALSE, key |-> k]

Fresh == Gap(0)        \* not positioned yet

Lost == Gap(-1)        \* a search failed

Reset == at' = [c \in CursorIds |-> Fresh]

\* The first key from k on, or End; the last one before k, or 0.
From(k) == Min({j \in DOMAIN map : j >= k} \cup {End})

Before(k) == Max({j \in DOMAIN map : j < k} \cup {0})

Put(k, v) == map' = [j \in DOMAIN map \cup {k} |-> IF j = k THEN v ELSE map[j]]

\* Cursors on a deleted key, or in the gap before it, move to the gap before the
\* next one; those of a map that became empty are not positioned any more.
Moved(p, k) ==
    IF p = Lost THEN Lost
    ELSE IF DOMAIN map = {k} THEN Fresh
    ELSE IF p.key = k THEN Gap(From(k + 1))
    ELSE p

Del(k) ==
    /\ map' = [j \in DOMAIN map \ {k} |-> map[j]]
    /\ at' = [c \in CursorIds |-> Moved(at[c], k)]

\* Where each operation takes a cursor at p; one that fails leaves it alone, but
\* looking back from the gap before the first key puts it on that key.
OnOrElse(k, p) == IF k \in DOMAIN map THEN On(k) ELSE p

Succeeding(p) ==
    OnOrElse(IF p = Fresh THEN From(1) ELSE IF p.on THEN From(p.key + 1) ELSE p.key, p)

Preceding(p) ==
    OnOrElse(Before(IF p = Fresh THEN End ELSE p.key), OnOrElse(p.key, p))

Searched(k) == OnOrElse(k, Lost)

SearchedFrom(k) == OnOrElse(From(k), Lost)
=============================================================================
