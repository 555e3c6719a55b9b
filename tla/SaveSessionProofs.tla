-------------------------- MODULE SaveSessionProofs --------------------------
(***************************************************************************)
(* Proofs about SaveSession, for any towers, slots, sizes, quota, crash     *)
(* limit, first stores and number of moves.  Every property the runs check  *)
(* of it but AskedLands, which is liveness, is a theorem here.  The parts   *)
(* of the inductive invariant say what the page has in hand, the tower in   *)
(* the engine and the save being compressed, compared with what is stored.  *)
(***************************************************************************)
EXTENDS SaveSession, FiniteSetTheorems, TLAPS

\* Storage is within its quota: so a save taken out of it fits back in.
StoreFits == Used(store, Key) <= Quota

IsReal(text) == text.tower \notin {"backdrop", "halfWritten"}

\* What a save may be taken of is a tower the player has.
RealInHand ==
    /\ live.tower # "halfWritten" /\ (Live => IsReal(live))
    /\ run # None => IsReal(run.text) /\ page \notin {"closed", "splash"}

\* ... and one this build reads back.
ReadableInHand ==
    /\ Readable(live, build)
    /\ run # None => Readable(run.text, build)

\* A compression that may still be written in a hidden tab is of the tower the
\* tab was hidden with.
HiddenInHand == hidden /\ Live /\ run # None /\ run.owns => run.text = live

\* A compression that may still be written is no older than the autosave.
MomentsInOrder ==
    /\ autoAt <= now
    /\ run # None => run.at <= now /\ (run.owns => autoAt <= run.at)

\* A page that says it kept a newer build's save has it.
KeptIsStashed == keptNewer => IsNewer(store["stash"])

\* The tower in play is the one the next boot finds, or the one the compression
\* in hand will leave there; unless a write failed, a request is still queued, or
\* the tower came from a slot.
Idle == run = None \/ (~run.owns /\ ~run.queued)
WillReload ==
    page # "closed" /\ via # "slot" =>
        /\ Idle /\ ~failed => BootTower(store, build).tower = live.tower
        /\ run # None /\ run.owns /\ ~run.queued => run.text.tower = live.tower

IInv ==
    /\ TypeOK /\ StoreFits /\ OnlyRealTowers /\ RealInHand /\ ReadableInHand
    /\ HiddenIsSaved /\ HiddenInHand /\ MomentsInOrder /\ KeptIsStashed /\ WillReload

-----------------------------------------------------------------------------
(* localStorage.                                                           *)

Stores == [Key -> Text \cup {None}]
SizeAt(st, k) == IF st[k] = None THEN 0 ELSE st[k].size

\* The keys are finitely many, and a slot's is none of the others.
LEMMA KeyFacts ==
    /\ IsFiniteSet(Key) /\ {"auto", "legacy", "stash"} \subseteq Key /\ Slot \subseteq Key
    /\ \A k \in Slot : k \notin {"auto", "legacy", "stash"}
<1>1. IsFiniteSet({"auto"}) /\ IsFiniteSet({"legacy"}) /\ IsFiniteSet({"stash"})
  BY FS_Singleton
<1>2. IsFiniteSet({"auto"} \cup {"legacy"})
  BY <1>1, FS_Union
<1>3. IsFiniteSet(({"auto"} \cup {"legacy"}) \cup {"stash"})
  BY <1>1, <1>2, FS_Union
<1>4. IsFiniteSet((({"auto"} \cup {"legacy"}) \cup {"stash"}) \cup Slot)
  BY <1>3, NameAssumption, FS_Union
<1>5. Key = (({"auto"} \cup {"legacy"}) \cup {"stash"}) \cup Slot
  BY DEF Key
<1> QED BY <1>4, <1>5, NameAssumption DEF Key

\* A text's size is a number.
LEMMA SizeIsNat == \A text \in Text : text.size \in Nat /\ text # None
BY SizeAssumption DEF Text

LEMMA SizeAtIsNat == ASSUME NEW st \in Stores, NEW k \in Key PROVE SizeAt(st, k) \in Nat
BY SizeIsNat DEF Stores, SizeAt

\* The bytes of a key are as many as its size says.
LEMMA BytesOfKey ==
    ASSUME NEW st \in Stores, NEW k \in Key
    PROVE  IsFiniteSet({k} \X Bytes(st, k)) /\ Cardinality({k} \X Bytes(st, k)) = SizeAt(st, k)
<1>1. IsFiniteSet({k}) /\ Cardinality({k}) = 1
  BY FS_Singleton
<1>2. IsFiniteSet(Bytes(st, k)) /\ Cardinality(Bytes(st, k)) = SizeAt(st, k)
  <2>1. CASE st[k] = None
    BY <2>1, FS_EmptySet DEF Bytes, SizeAt
  <2>2. CASE st[k] # None
    <3>1. st[k].size \in Nat
      BY <2>2, SizeIsNat DEF Stores
    <3>2. IsFiniteSet(1..st[k].size) /\ Cardinality(1..st[k].size) = st[k].size
      <4> DEFINE n == st[k].size
      <4>1. n \in Int /\ 1 \in Int
        BY <3>1
      <4> HIDE DEF n
      <4>2. IsFiniteSet(1..n) /\ Cardinality(1..n) = IF 1 > n THEN 0 ELSE n - 1 + 1
        BY <4>1, FS_Interval
      <4>3. n \in Nat
        BY <3>1 DEF n
      <4>4. IsFiniteSet(1..n) /\ Cardinality(1..n) = n
        BY <4>2, <4>3
      <4> QED BY <4>4 DEF n
    <3> QED BY <2>2, <3>2 DEF Bytes, SizeAt
  <2> QED BY <2>1, <2>2
<1>3. /\ IsFiniteSet({k} \X Bytes(st, k))
      /\ Cardinality({k} \X Bytes(st, k)) = Cardinality({k}) * Cardinality(Bytes(st, k))
  BY <1>1, <1>2, FS_Product
<1>4. SizeAt(st, k) \in Nat
  BY SizeAtIsNat
<1> QED BY <1>1, <1>2, <1>3, <1>4

\* What any keys use is finite.
LEMMA CellsFinite ==
    ASSUME NEW st \in Stores, NEW keys \in SUBSET Key
    PROVE  IsFiniteSet(Cells(st, keys)) /\ Used(st, keys) \in Nat
<1> DEFINE parts == {{k} \X Bytes(st, k) : k \in keys}
           part  == [k \in keys |-> {k} \X Bytes(st, k)]
<1>1. IsFiniteSet(keys)
  BY KeyFacts, FS_Subset
<1>2. part \in Surjection(keys, parts)
  BY DEF Surjection
<1>3. IsFiniteSet(parts)
  <2> HIDE DEF part, parts
  <2> QED BY <1>1, <1>2, FS_Surjection
<1>4. \A T \in parts : IsFiniteSet(T)
  BY BytesOfKey
<1>5. IsFiniteSet(UNION parts)
  <2> HIDE DEF parts
  <2> QED BY <1>3, <1>4, FS_UNION
<1> QED BY <1>5, FS_CardinalityType DEF Cells, Used

\* What is used is what one key uses and what the others use.
LEMMA UsedSplit ==
    ASSUME NEW st \in Stores, NEW k \in Key
    PROVE  Used(st, Key) = Used(st, Key \ {k}) + SizeAt(st, k)
<1> DEFINE mine == {k} \X Bytes(st, k)
           rest == Cells(st, Key \ {k})
<1>1. Cells(st, Key) = rest \cup mine
  BY DEF Cells
<1>2. rest \cap mine = {}
  BY DEF Cells
<1>3. IsFiniteSet(rest) /\ IsFiniteSet(mine) /\ Cardinality(mine) = SizeAt(st, k)
  BY CellsFinite, BytesOfKey
<1>4. Cardinality(rest \cup mine) =
         Cardinality(rest) + Cardinality(mine) - Cardinality(rest \cap mine)
  <2> HIDE DEF rest, mine
  <2> QED BY <1>3, FS_Union
<1>5. Cardinality(rest \cap mine) = 0
  BY <1>2, FS_EmptySet
<1>6. Cardinality(rest) \in Nat /\ SizeAt(st, k) \in Nat
  BY <1>3, FS_CardinalityType, SizeAtIsNat
<1> QED BY <1>1, <1>3, <1>4, <1>5, <1>6 DEF Used

\* Stores that agree on some keys use as much by them.
LEMMA UsedAgree ==
    ASSUME NEW st \in Stores, NEW other \in Stores, NEW keys \in SUBSET Key,
           \A k \in keys : other[k] = st[k]
    PROVE  Used(other, keys) = Used(st, keys)
<1>1. \A k \in keys : Bytes(other, k) = Bytes(st, k)
  BY DEF Bytes
<1>2. Cells(other, keys) = Cells(st, keys)
  BY <1>1 DEF Cells
<1> QED BY <1>2 DEF Used

\* A key put or emptied changes what is used by that key alone.
LEMMA UsedPut ==
    ASSUME NEW st \in Stores, NEW k \in Key, NEW text \in Text \cup {None}
    PROVE  /\ Put(st, k, text) \in Stores
           /\ Put(st, k, text)[k] = text
           /\ \A m \in Key \ {k} : Put(st, k, text)[m] = st[m]
           /\ Used(Put(st, k, text), Key) =
                Used(st, Key \ {k}) + (IF text = None THEN 0 ELSE text.size)
<1>1. Put(st, k, text) \in Stores
  BY DEF Put, Stores
<1>2. Put(st, k, text)[k] = text /\ \A m \in Key \ {k} : Put(st, k, text)[m] = st[m]
  BY DEF Put, Stores
<1>3. Used(Put(st, k, text), Key \ {k}) = Used(st, Key \ {k})
  BY <1>1, <1>2, UsedAgree
<1>4. Used(Put(st, k, text), Key) =
         Used(Put(st, k, text), Key \ {k}) + SizeAt(Put(st, k, text), k)
  BY <1>1, UsedSplit
<1> QED BY <1>1, <1>2, <1>3, <1>4 DEF SizeAt

\* A write that fits is made and stays within the quota; one that does not fit
\* changes nothing.
LEMMA WriteFacts ==
    ASSUME NEW st \in Stores, NEW k \in Key, NEW text \in Text, Used(st, Key) <= Quota
    PROVE  LET w == Write(st, k, text)
           IN  /\ w.ok \in BOOLEAN /\ w.st \in Stores /\ Used(w.st, Key) <= Quota
               /\ w.ok <=> Fits(st, k, text)
               /\ w.ok => w.st[k] = text /\ \A m \in Key \ {k} : w.st[m] = st[m]
               /\ ~w.ok => w.st = st
<1>1. CASE Fits(st, k, text)
  <2>1. Write(st, k, text) = [ok |-> TRUE, st |-> Put(st, k, text)]
    BY <1>1 DEF Write
  <2>2. Used(Put(st, k, text), Key) <= Quota
    <3>1. Used(Put(st, k, text), Key) = Used(st, Key \ {k}) + text.size
      BY UsedPut, SizeIsNat
    <3> QED BY <1>1, <3>1 DEF Fits
  <2>3. /\ Put(st, k, text) \in Stores /\ Put(st, k, text)[k] = text
        /\ \A m \in Key \ {k} : Put(st, k, text)[m] = st[m]
    BY DEF Put, Stores
  <2> QED BY <1>1, <2>1, <2>2, <2>3
<1>2. CASE ~Fits(st, k, text)
  BY <1>2 DEF Write
<1> QED BY <1>1, <1>2

\* The autosave's write: it is made, and costs the legacy save its place at most;
\* or it changes nothing, for a legacy save taken out fits back in.
LEMMA WriteAutoFacts ==
    ASSUME NEW st \in Stores, NEW text \in Text, Used(st, Key) <= Quota
    PROVE  LET w == WriteAuto(st, text)
           IN  /\ w.ok \in BOOLEAN /\ w.st \in Stores /\ Used(w.st, Key) <= Quota
               /\ w.ok => w.st["auto"] = text
               /\ w.ok => w.st["legacy"] \in {None, st["legacy"]}
               /\ \A k \in Key \ {"auto", "legacy"} : w.st[k] = st[k]
               /\ ~w.ok => w.st = st
<1> DEFINE bare  == Put(st, "legacy", None)
           tried == Write(bare, "auto", text)
           back  == Write(tried.st, "legacy", st["legacy"])
<1>1. "auto" \in Key /\ "legacy" \in Key /\ "auto" # "legacy"
  BY KeyFacts
<1>2. CASE st["legacy"] = None
  <2>1. WriteAuto(st, text) = Write(st, "auto", text)
    BY <1>2 DEF WriteAuto
  <2> QED BY <1>1, <2>1, WriteFacts
<1>3. CASE st["legacy"] # None
  <2>1. st["legacy"] \in Text /\ st["legacy"].size \in Nat
    BY <1>1, <1>3, SizeIsNat DEF Stores
  <2>2. /\ bare \in Stores /\ bare["legacy"] = None
        /\ \A m \in Key \ {"legacy"} : bare[m] = st[m]
        /\ Used(bare, Key) = Used(st, Key \ {"legacy"})
    <3>1. Used(st, Key \ {"legacy"}) \in Nat
      BY CellsFinite
    <3> QED BY <1>1, <3>1, UsedPut
  <2>3. Used(st, Key) = Used(st, Key \ {"legacy"}) + st["legacy"].size
    BY <1>1, <1>3, UsedSplit DEF SizeAt
  <2>4. Used(bare, Key) <= Quota
    <3>1. Used(st, Key \ {"legacy"}) \in Nat
      BY CellsFinite
    <3> QED BY <2>1, <2>2, <2>3, <3>1, SizeAssumption
  <2> HIDE DEF bare
  <2>5. /\ tried.ok \in BOOLEAN /\ tried.st \in Stores /\ Used(tried.st, Key) <= Quota
        /\ tried.ok => tried.st["auto"] = text /\ \A m \in Key \ {"auto"} : tried.st[m] = bare[m]
        /\ ~tried.ok => tried.st = bare
    BY <1>1, <2>2, <2>4, WriteFacts
  <2>6. WriteAuto(st, text) = IF tried.ok THEN tried ELSE [ok |-> FALSE, st |-> back.st]
    BY <1>3 DEF WriteAuto, bare
  <2> HIDE DEF tried
  <2>7. CASE tried.ok
    BY <1>1, <2>2, <2>5, <2>6, <2>7
  <2>8. CASE ~tried.ok
    <3>1. tried.st = bare
      BY <2>5, <2>8
    <3>2. Used(bare, Key \ {"legacy"}) = Used(st, Key \ {"legacy"})
      BY <2>2, UsedAgree
    <3>3. Fits(bare, "legacy", st["legacy"])
      BY <2>3, <3>2 DEF Fits
    <3>4. back.st \in Stores /\ back.st["legacy"] = st["legacy"]
          /\ \A m \in Key \ {"legacy"} : back.st[m] = bare[m]
      BY <1>1, <2>1, <2>2, <2>4, <3>1, <3>3, WriteFacts
    <3> HIDE DEF back
    <3>5. \A m \in Key : back.st[m] = st[m]
      BY <2>2, <3>4
    <3>6. back.st = st
      BY <3>4, <3>5 DEF Stores
    <3> QED BY <2>6, <2>8, <3>6
  <2> QED BY <2>5, <2>7, <2>8
<1> QED BY <1>2, <1>3

\* Keeping a text aside changes the stash at most, and a newer build's save kept
\* there before is still there.
LEMMA StashFacts ==
    ASSUME NEW st \in Stores, NEW raw \in Text, Used(st, Key) <= Quota
    PROVE  LET s == Stash(st, raw)
           IN  /\ s.ok \in BOOLEAN /\ s.st \in Stores /\ Used(s.st, Key) <= Quota
               /\ \A k \in Key \ {"stash"} : s.st[k] = st[k]
               /\ s.ok => s.st["stash"] = raw
               /\ ~s.ok => s.st = st
               /\ IsNewer(st["stash"]) => IsNewer(s.st["stash"])
<1>1. "stash" \in Key
  BY KeyFacts
<1>2. CASE st["stash"] = raw
  BY <1>2 DEF Stash
<1>3. CASE st["stash"] # raw /\ st["stash"] # None /\ ~IsNewer(raw)
  BY <1>3 DEF Stash
<1>4. CASE st["stash"] # raw /\ (st["stash"] = None \/ IsNewer(raw))
  <2>1. Stash(st, raw) = Write(st, "stash", raw)
    BY <1>4 DEF Stash
  <2>2. IsNewer(st["stash"]) => IsNewer(raw)
    BY <1>4 DEF IsNewer
  <2> QED BY <1>1, <2>1, <2>2, WriteFacts
<1> QED BY <1>2, <1>3, <1>4

-----------------------------------------------------------------------------
(* The autosave in hand.                                                   *)

Runs == {None} \cup Run

\* Another save of the autosave key leaves the one in hand as it was, but for
\* the key.
LEMMA RetiredFacts ==
    ASSUME NEW r \in Runs
    PROVE  /\ Retired(r) \in Runs
           /\ Retired(r) = None <=> r = None
           /\ r # None => /\ Retired(r).text = r.text /\ Retired(r).at = r.at
                          /\ Retired(r).owns = FALSE /\ Retired(r).queued = r.queued
<1>1. CASE r = None
  BY <1>1 DEF Retired, Runs
<1>2. CASE r # None
  <2>1. r \in Run
    BY <1>2 DEF Runs
  <2>2. Retired(r) = [r EXCEPT !.owns = FALSE]
    BY <1>2 DEF Retired
  <2>3. Retired(r) \in Run /\ r.owns \in BOOLEAN
    BY <2>1, <2>2 DEF Run
  <2> QED BY <1>2, <2>1, <2>2, <2>3, SizeAssumption DEF Run, Runs
<1> QED BY <1>1, <1>2

\* A compression begun is of the text and the moment it was given.
LEMMA CompressingFacts ==
    ASSUME NEW text \in Text, NEW at \in 1..MaxNow
    PROVE  LET r == Compressing(text, at)
           IN  /\ r \in Runs /\ r # None /\ r.text = text /\ r.at = at
               /\ r.owns = TRUE /\ r.queued = FALSE
<1>1. Compressing(text, at) \in Run
  BY DEF Compressing, Run
<1> QED BY <1>1, SizeAssumption DEF Compressing, Runs

\* An autosave asked for begins one, or is queued behind the one in hand.
LEMMA AutosaveFacts ==
    ASSUME NEW r \in Runs, NEW text \in Text, NEW at \in 1..MaxNow
    PROVE  LET a == Autosave(r, text, at)
           IN  /\ a \in Runs /\ a # None
               /\ r = None => a = Compressing(text, at)
               /\ r # None => /\ a.text = r.text /\ a.at = r.at
                              /\ a.owns = r.owns /\ a.queued = TRUE
<1>1. CASE r = None
  BY <1>1, CompressingFacts DEF Autosave
<1>2. CASE r # None
  <2>1. r \in Run
    BY <1>2 DEF Runs
  <2>2. Autosave(r, text, at) = [r EXCEPT !.queued = TRUE]
    BY <1>2 DEF Autosave
  <2>3. Autosave(r, text, at) \in Run
    BY <2>1, <2>2 DEF Run
  <2> QED BY <1>2, <2>1, <2>2, <2>3, SizeAssumption DEF Run, Runs
<1> QED BY <1>1, <1>2

\* The autosave written at once: it is, and any in hand no longer owns the key;
\* or storage is as it was, and the page says so.
LEMMA SaveNowFacts ==
    ASSUME store \in Stores, StoreFits, run \in Runs, live \in Text, SaveNow(live)
    PROVE  /\ store' \in Stores /\ StoreFits' /\ failed' \in BOOLEAN
           /\ ~failed' => /\ store'["auto"] = live /\ autoAt' = now
                          /\ store'["legacy"] \in {None, store["legacy"]}
           /\ \A k \in Key \ {"auto", "legacy"} : store'[k] = store[k]
           /\ failed' => store' = store /\ autoAt' = autoAt
           /\ run' = Retired(run)
<1>1. Used(store, Key) <= Quota
  BY DEF StoreFits
<1>2. store' = WriteAuto(store, live).st /\ failed' = ~WriteAuto(store, live).ok
  BY DEF SaveNow
<1>3. /\ WriteAuto(store, live).ok => autoAt' = now
      /\ ~WriteAuto(store, live).ok => autoAt' = autoAt
      /\ run' = Retired(run)
  BY DEF SaveNow
<1> QED BY <1>1, <1>2, <1>3, WriteAutoFacts DEF StoreFits
-----------------------------------------------------------------------------
(* What a boot finds.                                                      *)

\* A build reads a save it read before, and the next build reads it too.
LEMMA ReadableFacts ==
    ASSUME NEW text \in Text \cup {None}, NEW b \in 1..2, NEW c \in b..2
    PROVE  /\ Readable(text, b) => Readable(text, c) /\ text \in Text
           /\ Readable(text, 1) => ~IsNewer(text)
BY DEF Readable, IsNewer

\* The autosave is what loads if it can be read, whatever else is stored.
LEMMA AutoIsStored ==
    ASSUME NEW st, NEW b, Readable(st["auto"], b)
    PROVE  Stored(st, b) = st["auto"] /\ BootTower(st, b) = st["auto"]
BY DEF Stored, BootTower, Readable

\* What loads is one of the two saves of the tower in play, and is read.
LEMMA StoredFacts ==
    ASSUME NEW st \in Stores, NEW b \in 1..2
    PROVE  /\ Stored(st, b) \in Text \cup {None}
           /\ Stored(st, b) # None => /\ Readable(Stored(st, b), b)
                                      /\ Stored(st, b) \in {st["auto"], st["legacy"]}
<1>1. st["auto"] \in Text \cup {None} /\ st["legacy"] \in Text \cup {None}
  BY KeyFacts DEF Stores
<1> QED BY <1>1 DEF Stored

\* Only those two keys decide what loads.
LEMMA StoredAgree ==
    ASSUME NEW st, NEW other, NEW b, other["auto"] = st["auto"], other["legacy"] = st["legacy"]
    PROVE  Stored(other, b) = Stored(st, b) /\ BootTower(other, b) = BootTower(st, b)
BY DEF Stored, BootTower

\* What a build loads, a newer build loads a save too.
LEMMA StoredOnLaterBuild ==
    ASSUME NEW st \in Stores, NEW b \in 1..2, NEW c \in b..2, Stored(st, b) # None
    PROVE  Stored(st, c) # None
<1>1. st["auto"] \in Text \cup {None} /\ st["legacy"] \in Text \cup {None}
  BY KeyFacts DEF Stores
<1> QED BY <1>1, ReadableFacts DEF Stored, Readable

\* The backdrop is a tower no save is taken of.
LEMMA BackdropFacts ==
    /\ Backdrop \in Text /\ Backdrop.tower = "backdrop"
    /\ \A b \in 1..2 : Readable(Backdrop, b)
<1>1. (CHOOSE s \in Size : TRUE) \in Size
  BY SizeAssumption
<1>2. 0 \in 0..MaxNow
  BY SizeAssumption
<1>3. Backdrop \in Text
  BY <1>1, <1>2 DEF Backdrop, Text
<1> QED BY <1>3, SizeAssumption DEF Backdrop, Readable

\* What could not be read is a text, and a backdrop is loaded when nothing is.
LEMMA BootFacts ==
    ASSUME NEW st \in Stores, NEW b \in 1..2
    PROVE  /\ BootTower(st, b) \in Text /\ Readable(BootTower(st, b), b)
           /\ Refused(st, b) # {} => st[StashKey(st, b)] \in Text
<1>1. st["auto"] \in Text \cup {None} /\ st["legacy"] \in Text \cup {None}
  BY KeyFacts DEF Stores
<1>2. BootTower(st, b) \in Text /\ Readable(BootTower(st, b), b)
  BY StoredFacts, BackdropFacts DEF BootTower
<1>3. ASSUME Refused(st, b) # {}
      PROVE  st[StashKey(st, b)] \in Text
  <2> DEFINE newer == {k \in Refused(st, b) : IsNewer(st[k])}
             from  == IF newer # {} THEN newer ELSE Refused(st, b)
  <2>1. from # {} /\ from \subseteq Refused(st, b)
    BY <1>3
  <2>2. StashKey(st, b) = IF "auto" \in from THEN "auto" ELSE "legacy"
    BY DEF StashKey
  <2>3. \A k \in Refused(st, b) : k \in {"auto", "legacy"} /\ st[k] # None
    BY DEF Refused
  <2> HIDE DEF from
  <2>4. StashKey(st, b) \in Refused(st, b)
    BY <2>1, <2>2, <2>3
  <2> QED BY <1>1, <2>3, <2>4
<1> QED BY <1>2, <1>3

-----------------------------------------------------------------------------
(* The inductive invariant, action by action.                              *)

\* A store's save of a player's tower.
LEMMA StoreFacts ==
    ASSUME IInv
    PROVE  /\ store \in Stores /\ Used(store, Key) <= Quota
           /\ run \in Runs /\ (run # None => run \in Run)
           /\ \A k \in Key : store[k] # None => store[k] \in Text /\ IsReal(store[k])
BY DEF IInv, TypeOK, StoreFits, OnlyRealTowers, IsReal, Stores, Runs

\* The invariant holds of the storage the first build found.
LEMMA InitHolds == Init => IInv
<1> SUFFICES ASSUME Init PROVE IInv
  OBVIOUS
<1>1. store \in Stores /\ StoreFits /\ OnlyRealTowers
  BY StoreAssumption DEF Init, Stores, StoreFits, OnlyRealTowers
<1>2. TypeOK
  <2>1. /\ 1 \in 1..MaxNow /\ 0 \in 0..MaxNow /\ 0 \in 0..CrashLoopPages
        /\ "closed" \in Pages /\ None \in {None} \cup Run
    BY SizeAssumption DEF Pages
  <2>2. live \in Text
    BY BackdropFacts DEF Init
  <2>3. /\ build \in 1..2 /\ page \in Pages /\ run \in {None} \cup Run
        /\ via \in {"boot", "slot", "load", "found", "import"}
        /\ now \in 1..MaxNow /\ autoAt \in 0..MaxNow /\ asked \in 0..MaxNow
        /\ crashes \in 0..CrashLoopPages
    BY <2>1 DEF Init
  <2>4. /\ hidden \in BOOLEAN /\ activating \in BOOLEAN /\ reloading \in BOOLEAN
        /\ keptNewer \in BOOLEAN /\ failed \in BOOLEAN
    BY DEF Init
  <2> QED BY <1>1, <2>2, <2>3, <2>4 DEF TypeOK, Stores
<1>3. RealInHand /\ ReadableInHand
  BY BackdropFacts DEF Init, RealInHand, ReadableInHand, Live
<1>4. HiddenIsSaved /\ HiddenInHand /\ KeptIsStashed
  BY DEF Init, HiddenIsSaved, HiddenInHand, KeptIsStashed
<1>5. MomentsInOrder /\ WillReload
  BY DEF Init, MomentsInOrder, WillReload
<1> QED BY <1>1, <1>2, <1>3, <1>4, <1>5 DEF IInv

\* A step that leaves every variable alone keeps the invariant.
LEMMA StutterKeeps == IInv /\ UNCHANGED vars => IInv'
BY DEF IInv, vars, TypeOK, StoreFits, OnlyRealTowers, RealInHand, ReadableInHand,
       HiddenIsSaved, HiddenInHand, MomentsInOrder, KeptIsStashed, WillReload, Idle, Live

\* The autosave timer: a compression begins of the tower in play, or is queued.
LEMMA TimerTickKeeps == IInv /\ TimerTick => IInv'
<1> SUFFICES ASSUME IInv, TimerTick PROVE IInv'
  OBVIOUS
<1>1. TypeOK /\ run \in Runs /\ live \in Text /\ now \in 1..MaxNow
  BY StoreFacts DEF IInv, TypeOK
<1>2. /\ run' \in Runs /\ run' # None
      /\ run = None => /\ run'.text = live /\ run'.at = now
                       /\ run'.owns = TRUE /\ run'.queued = FALSE
      /\ run # None => /\ run'.text = run.text /\ run'.at = run.at
                       /\ run'.owns = run.owns /\ run'.queued = TRUE
  <2>1. run' = Autosave(run, live, now)
    BY DEF TimerTick
  <2>2. CASE run = None
    <3>1. run' = Compressing(live, now)
      BY <2>1, <2>2 DEF Autosave
    <3> QED BY <1>1, <2>2, <3>1, CompressingFacts
  <2>3. CASE run # None
    BY <1>1, <2>1, <2>3, AutosaveFacts
  <2> QED BY <2>2, <2>3
<1>3. TypeOK' /\ StoreFits' /\ OnlyRealTowers'
  BY <1>1, <1>2 DEF IInv, TimerTick, TypeOK, StoreFits, OnlyRealTowers, tab, Runs
<1>4. RealInHand' /\ ReadableInHand'
  BY <1>2 DEF IInv, TimerTick, RealInHand, ReadableInHand, Live, tab
<1>5. HiddenIsSaved' /\ HiddenInHand' /\ KeptIsStashed'
  BY <1>2 DEF IInv, TimerTick, HiddenIsSaved, HiddenInHand, KeptIsStashed, Live, tab
<1>6. MomentsInOrder'
  BY <1>1, <1>2 DEF IInv, TimerTick, MomentsInOrder
<1>7. WillReload'
  BY <1>2 DEF IInv, TimerTick, WillReload, Idle, tab
<1> QED BY <1>3, <1>4, <1>5, <1>6, <1>7 DEF IInv

\* Where storage, the tower in hand and the compression stay as they are, and
\* nothing is hidden or comes into play that was not real, the invariant stays.
LEMMA PageKeeps ==
    ASSUME IInv, UNCHANGED <<disk, build, live, via, now, asked, keptNewer>>,
           page' \in Pages \ {"closed"}, crashes' \in 0..CrashLoopPages,
           reloading' \in BOOLEAN, activating' \in BOOLEAN, hidden' \in BOOLEAN,
           hidden' /\ Live' => hidden /\ Live, Live' => Live \/ IsReal(live),
           page' = "splash" => page = "splash", page # "closed"
    PROVE  IInv'
<1>1. TypeOK' /\ StoreFits' /\ OnlyRealTowers'
  BY DEF IInv, TypeOK, StoreFits, OnlyRealTowers, disk
<1>2. RealInHand' /\ ReadableInHand'
  BY DEF IInv, RealInHand, ReadableInHand, disk, Pages
<1>3. HiddenIsSaved' /\ HiddenInHand' /\ KeptIsStashed'
  BY DEF IInv, HiddenIsSaved, HiddenInHand, KeptIsStashed, disk
<1>4. MomentsInOrder' /\ WillReload'
  BY DEF IInv, MomentsInOrder, WillReload, Idle, disk
<1> QED BY <1>1, <1>2, <1>3, <1>4 DEF IInv

\* A trap's count and reload flag.
LEMMA StopFacts ==
    ASSUME IInv, Stop
    PROVE  page' = "stopped" /\ crashes' \in 0..CrashLoopPages /\ reloading' \in BOOLEAN
<1>1. crashes \in 0..CrashLoopPages /\ CrashLoopPages \in Nat
  BY SizeAssumption DEF IInv, TypeOK
<1>2. page' = "stopped"
  BY DEF Stop
<1>3. PICK counted \in BOOLEAN :
        /\ crashes' = (IF counted /\ crashes < CrashLoopPages THEN crashes + 1 ELSE crashes)
        /\ reloading' = (counted /\ (IF counted /\ crashes < CrashLoopPages
                                     THEN crashes + 1 ELSE crashes) < CrashLoopPages)
  BY DEF Stop
<1> QED BY <1>1, <1>2, <1>3

LEMMA ShowKeeps == IInv /\ Show => IInv'
<1> SUFFICES ASSUME IInv, Show PROVE IInv'
  OBVIOUS
<1>1. CASE page = "closed"
  <2>1. TypeOK' /\ StoreFits' /\ OnlyRealTowers'
    BY DEF IInv, Show, TypeOK, StoreFits, OnlyRealTowers, disk, tab
  <2>2. RealInHand' /\ ReadableInHand' /\ KeptIsStashed'
    BY DEF IInv, Show, RealInHand, ReadableInHand, KeptIsStashed, disk, tab, Live
  <2>3. HiddenIsSaved' /\ HiddenInHand' /\ MomentsInOrder' /\ WillReload'
    BY <1>1 DEF IInv, Show, HiddenIsSaved, HiddenInHand, MomentsInOrder, WillReload, disk, tab
  <2> QED BY <2>1, <2>2, <2>3 DEF IInv
<1>2. CASE page # "closed"
  <2>1. page \in Pages /\ crashes \in 0..CrashLoopPages /\ reloading \in BOOLEAN
        /\ activating \in BOOLEAN
    BY DEF IInv, TypeOK
  <2> QED BY <1>2, <2>1, PageKeeps DEF Show, tab, Live
<1> QED BY <1>1, <1>2

LEMMA ContinueKeeps == IInv /\ Continue => IInv'
<1> SUFFICES ASSUME IInv, Continue PROVE IInv'
  OBVIOUS
<1>1. page \in Pages /\ crashes \in 0..CrashLoopPages /\ reloading \in BOOLEAN
      /\ activating \in BOOLEAN /\ hidden \in BOOLEAN
  BY DEF IInv, TypeOK
<1>2. IsReal(live)
  BY DEF IInv, RealInHand, IsReal, Continue
<1> QED BY <1>1, <1>2, PageKeeps DEF Continue, tab, Live, Pages

LEMMA TrapKeeps == IInv /\ Trap => IInv'
<1> SUFFICES ASSUME IInv, Trap PROVE IInv'
  OBVIOUS
<1>1. activating \in BOOLEAN /\ hidden \in BOOLEAN
  BY DEF IInv, TypeOK
<1>2. page' = "stopped" /\ crashes' \in 0..CrashLoopPages /\ reloading' \in BOOLEAN
  BY StopFacts DEF Trap
<1>3. UNCHANGED <<disk, build, live, via, now, asked, keptNewer>> /\ page # "closed"
      /\ UNCHANGED <<hidden, activating>>
  BY DEF Trap
<1> QED BY <1>1, <1>2, <1>3, PageKeeps DEF Live, Pages

LEMMA ActivateFailsKeeps == IInv /\ ActivateFails => IInv'
<1> SUFFICES ASSUME IInv, ActivateFails PROVE IInv'
  OBVIOUS
<1>1. page \in Pages /\ crashes \in 0..CrashLoopPages /\ reloading \in BOOLEAN
      /\ hidden \in BOOLEAN
  BY DEF IInv, TypeOK
<1>2. TypeOK' /\ StoreFits' /\ OnlyRealTowers'
  BY DEF IInv, ActivateFails, TypeOK, StoreFits, OnlyRealTowers, disk, tab
<1>3. RealInHand' /\ ReadableInHand' /\ KeptIsStashed'
  BY DEF IInv, ActivateFails, RealInHand, ReadableInHand, KeptIsStashed, disk, tab, Live
<1>4. HiddenIsSaved' /\ HiddenInHand' /\ MomentsInOrder' /\ WillReload'
  BY DEF IInv, ActivateFails, HiddenIsSaved, HiddenInHand, MomentsInOrder, WillReload,
         Idle, Live, disk, tab
<1> QED BY <1>2, <1>3, <1>4 DEF IInv

\* A save written at once, of a tower in play: QuickSave, Hide, ContextLost and
\* UpdateNow.
LEMMA SaveNowKeeps ==
    ASSUME IInv, Live, SaveNow(live),
           UNCHANGED <<build, live, via, now, asked, keptNewer>>,
           page' \in {"play", "crashed", "stopped"}, crashes' \in 0..CrashLoopPages,
           reloading' \in BOOLEAN, activating' \in BOOLEAN, hidden' \in BOOLEAN
    PROVE  IInv'
<1>1. TypeOK /\ store \in Stores /\ StoreFits /\ run \in Runs /\ live \in Text
      /\ now \in 1..MaxNow /\ build \in 1..2 /\ autoAt \in 0..MaxNow
  BY StoreFacts DEF IInv, TypeOK
<1>2. IsReal(live) /\ Readable(live, build)
  BY DEF IInv, RealInHand, ReadableInHand
<1>3. /\ store' \in Stores /\ StoreFits' /\ failed' \in BOOLEAN
      /\ ~failed' => /\ store'["auto"] = live /\ autoAt' = now
                     /\ store'["legacy"] \in {None, store["legacy"]}
      /\ \A k \in Key \ {"auto", "legacy"} : store'[k] = store[k]
      /\ failed' => store' = store /\ autoAt' = autoAt
      /\ run' = Retired(run)
  BY <1>1, SaveNowFacts
<1>4. /\ run' \in Runs /\ (run' = None <=> run = None)
      /\ run # None => /\ run'.text = run.text /\ run'.at = run.at /\ run'.owns = FALSE
  BY <1>1, <1>3, RetiredFacts
<1>5. TypeOK'
  <2>1. autoAt' \in 0..MaxNow
    BY <1>1, <1>3
  <2>2. page' \in Pages
    BY DEF Pages
  <2>3. store' \in [Key -> Text \cup {None}] /\ run' \in {None} \cup Run
    BY <1>3, <1>4 DEF Stores, Runs
  <2> QED BY <1>1, <1>3, <2>1, <2>2, <2>3 DEF TypeOK
<1>6. OnlyRealTowers'
  <2>1. CASE failed'
    BY <1>3, <2>1 DEF IInv, OnlyRealTowers
  <2>2. CASE ~failed'
    <3>1. \A k \in Key : store[k] # None => IsReal(store[k])
      BY StoreFacts
    <3>2. \A k \in Key : store'[k] # None => IsReal(store'[k])
      BY <1>2, <1>3, <2>2, <3>1, KeyFacts
    <3> QED BY <3>2 DEF OnlyRealTowers, IsReal
  <2> QED BY <2>1, <2>2
<1>7. RealInHand' /\ ReadableInHand'
  BY <1>2, <1>4 DEF IInv, RealInHand, ReadableInHand, IsReal
<1>8. HiddenIsSaved' /\ HiddenInHand'
  BY <1>3, <1>4 DEF HiddenIsSaved, HiddenInHand
<1>9. MomentsInOrder'
  BY <1>1, <1>3, <1>4 DEF IInv, MomentsInOrder
<1>10. KeptIsStashed'
  BY <1>3, KeyFacts DEF IInv, KeptIsStashed
<1>11. WillReload'
  <2>1. ~failed' => BootTower(store', build') = live
    BY <1>2, <1>3, AutoIsStored
  <2>2. ~(run' # None /\ run'.owns)
    BY <1>4
  <2> QED BY <2>1, <2>2 DEF WillReload
<1> QED BY <1>3, <1>5, <1>6, <1>7, <1>8, <1>9, <1>10, <1>11 DEF IInv

\* The same where the engine's save writer may trap.
LEMMA SavesNowKeeps ==
    ASSUME IInv, Live, SavesNow(live),
           UNCHANGED <<build, live, via, now, asked, keptNewer>>,
           activating' \in BOOLEAN, hidden' \in BOOLEAN
    PROVE  IInv'
<1>1. SaveNow(live)
  BY DEF SavesNow
<1>2. page \in {"play", "crashed"} /\ crashes \in 0..CrashLoopPages /\ reloading \in BOOLEAN
  BY DEF IInv, TypeOK, Live
<1>3. CASE UNCHANGED <<page, crashes, reloading>>
  BY <1>1, <1>2, <1>3, SaveNowKeeps
<1>4. CASE Stop
  BY <1>1, <1>4, StopFacts, SaveNowKeeps
<1> QED BY <1>3, <1>4 DEF SavesNow

LEMMA QuickSaveKeeps == IInv /\ QuickSave => IInv'
<1> SUFFICES ASSUME IInv, QuickSave PROVE IInv'
  OBVIOUS
<1>1. hidden \in BOOLEAN /\ activating \in BOOLEAN
  BY DEF IInv, TypeOK
<1> QED BY <1>1, SavesNowKeeps DEF QuickSave, Live

LEMMA HideKeeps == IInv /\ Hide => IInv'
<1> SUFFICES ASSUME IInv, Hide PROVE IInv'
  OBVIOUS
<1>1. page \in Pages \ {"closed"} /\ crashes \in 0..CrashLoopPages /\ reloading \in BOOLEAN
      /\ activating \in BOOLEAN
  BY DEF IInv, TypeOK, Hide
<1>2. CASE Live /\ SavesNow(live)
  BY <1>1, <1>2, SavesNowKeeps DEF Hide
<1>3. CASE ~Live /\ UNCHANGED <<disk, page, crashes, reloading>>
  BY <1>1, <1>3, PageKeeps DEF Hide, Live
<1> QED BY <1>2, <1>3 DEF Hide

LEMMA ContextLostKeeps == IInv /\ ContextLost => IInv'
<1> SUFFICES ASSUME IInv, ContextLost PROVE IInv'
  OBVIOUS
<1>1. hidden \in BOOLEAN /\ activating \in BOOLEAN /\ crashes \in 0..CrashLoopPages
      /\ reloading \in BOOLEAN
  BY DEF IInv, TypeOK
<1> QED BY <1>1, SaveNowKeeps DEF ContextLost, Live, tab

LEMMA UpdateNowKeeps == IInv /\ UpdateNow => IInv'
<1> SUFFICES ASSUME IInv, UpdateNow PROVE IInv'
  OBVIOUS
<1>1. hidden \in BOOLEAN
  BY DEF IInv, TypeOK
<1>2. activating' \in BOOLEAN
  BY DEF UpdateNow
<1> QED BY <1>1, <1>2, SavesNowKeeps DEF UpdateNow, Live

\* A compression that ends: what it held is stored if it still owns the key, and
\* another begins of the tower in play if one was asked for.
LEMMA DrainFacts ==
    ASSUME IInv, DrainAutosaves
    PROVE  /\ run \in Run /\ store' \in Stores /\ StoreFits' /\ failed' \in BOOLEAN
           /\ \A k \in Key \ {"auto", "legacy"} : store'[k] = store[k]
           /\ ~run.owns => store' = store /\ autoAt' = autoAt /\ (failed => failed')
           /\ run.owns /\ ~failed' => /\ store'["auto"] = run.text /\ autoAt' = run.at
           /\ \/ store' = store /\ autoAt' = autoAt
              \/ /\ run.owns /\ store'["auto"] = run.text /\ autoAt' = run.at
                 /\ store'["legacy"] \in {None, store["legacy"]}
           /\ run' = None /\ ~failed' => ~run.queued
           /\ run' # None => page # "stopped" /\ run' = Compressing(live, now)
           /\ run' # None /\ run.owns => store'["auto"] = run.text /\ autoAt' = run.at
<1> DEFINE written == IF run.owns THEN WriteAuto(store, run.text)
                                  ELSE [ok |-> TRUE, st |-> store]
           again   == written.ok /\ run.queued
<1>1. run \in Run /\ store \in Stores /\ Used(store, Key) <= Quota
  BY StoreFacts DEF DrainAutosaves
<1>2. run.text \in Text /\ run.owns \in BOOLEAN /\ run.queued \in BOOLEAN
  BY <1>1 DEF Run
<1>3. /\ written.ok \in BOOLEAN /\ written.st \in Stores /\ Used(written.st, Key) <= Quota
      /\ run.owns /\ written.ok => /\ written.st["auto"] = run.text
                                   /\ written.st["legacy"] \in {None, store["legacy"]}
      /\ \A k \in Key \ {"auto", "legacy"} : written.st[k] = store[k]
      /\ ~run.owns => written.ok /\ written.st = store
      /\ ~written.ok => written.st = store
  BY <1>1, <1>2, WriteAutoFacts
<1>4. /\ store' = written.st
      /\ autoAt' = IF run.owns /\ written.ok THEN run.at ELSE autoAt
      /\ \/ again /\ \E text \in Texts : run' = Compressing(text, now)
         \/ (~again \/ Texts = {}) /\ run' = None
      /\ failed' = (\/ ~written.ok \/ (again /\ Texts = {}) \/ (failed /\ ~run.owns))
  BY DEF DrainAutosaves
<1> HIDE DEF written
<1>5. run' # None => written.ok /\ page # "stopped" /\ run' = Compressing(live, now)
  BY <1>4 DEF Texts
<1>6. run' = None /\ ~failed' => ~run.queued
  <2>1. live \in Text /\ now \in 1..MaxNow
    BY DEF IInv, TypeOK
  <2>2. again /\ Texts # {} => run' # None
    <3>1. again /\ Texts # {} => run' = Compressing(live, now)
      BY <1>4 DEF Texts
    <3>2. Compressing(live, now) # None
      BY <2>1, CompressingFacts
    <3> QED BY <3>1, <3>2
  <2> QED BY <1>3, <1>4, <2>2
<1>7. failed' \in BOOLEAN
  BY <1>4
<1>8. ~failed' => written.ok
  BY <1>4
<1>9. StoreFits'
  BY <1>3, <1>4 DEF StoreFits
<1>10. ~run.owns => store' = store /\ autoAt' = autoAt /\ (failed => failed')
  BY <1>3, <1>4
<1>11. written.ok /\ run.owns => /\ store'["auto"] = run.text /\ autoAt' = run.at
                                 /\ store'["legacy"] \in {None, store["legacy"]}
  BY <1>3, <1>4
<1>12. ~written.ok => store' = store /\ autoAt' = autoAt
  BY <1>3, <1>4
<1>13. store' \in Stores /\ \A k \in Key \ {"auto", "legacy"} : store'[k] = store[k]
  BY <1>3, <1>4
<1> QED BY <1>1, <1>2, <1>5, <1>6, <1>7, <1>8, <1>9, <1>10, <1>11, <1>12, <1>13

LEMMA DrainAutosavesKeeps == IInv /\ DrainAutosaves => IInv'
<1> SUFFICES ASSUME IInv, DrainAutosaves PROVE IInv'
  OBVIOUS
<1>1. UNCHANGED <<page, hidden, live, via, activating, reloading, now, asked, build,
                  crashes, keptNewer>> /\ run # None
  BY DEF DrainAutosaves, tab
<1>2. /\ TypeOK /\ live \in Text /\ now \in 1..MaxNow /\ autoAt \in 0..MaxNow
      /\ run \in Run /\ run.at \in 1..MaxNow /\ run.text \in Text
      /\ run.owns \in BOOLEAN /\ run.queued \in BOOLEAN
  BY DrainFacts DEF IInv, TypeOK, Run
<1>3. /\ run' = None \/ run' = Compressing(live, now)
      /\ run' # None => /\ page # "stopped" /\ run'.text = live /\ run'.at = now
                        /\ run'.owns = TRUE /\ run'.queued = FALSE
      /\ run' \in Runs
  <2> DEFINE c == Compressing(live, now)
  <2>1. c \in Runs /\ c.text = live /\ c.at = now /\ c.owns = TRUE /\ c.queued = FALSE
    BY <1>2, CompressingFacts
  <2>2. run' # None => page # "stopped" /\ run' = c
    BY DrainFacts
  <2> HIDE DEF c
  <2>3. /\ run' = None \/ run' = c
        /\ run' # None => /\ page # "stopped" /\ run'.text = live /\ run'.at = now
                          /\ run'.owns = TRUE /\ run'.queued = FALSE
        /\ run' \in Runs
    BY <2>1, <2>2 DEF Runs
  <2> QED BY <2>3 DEF c
<1>4. IsReal(run.text) /\ page \notin {"closed", "splash"} /\ Readable(run.text, build)
  BY <1>1 DEF IInv, RealInHand, ReadableInHand
<1>5. \/ store' = store /\ autoAt' = autoAt
      \/ /\ store'["auto"] = run.text /\ autoAt' = run.at /\ run.owns
         /\ store'["legacy"] \in {None, store["legacy"]}
  BY DrainFacts
<1>6. TypeOK'
  <2>1. store' \in [Key -> Text \cup {None}] /\ failed' \in BOOLEAN /\ run' \in {None} \cup Run
    BY <1>3, DrainFacts DEF Stores, Runs
  <2>2. autoAt' \in 0..MaxNow
    BY <1>2, <1>5
  <2> QED BY <1>1, <1>2, <2>1, <2>2 DEF TypeOK
<1>7. OnlyRealTowers'
  <2>1. \A k \in Key : store[k] # None => IsReal(store[k])
    BY StoreFacts
  <2>2. \A k \in Key \ {"auto", "legacy"} : store'[k] = store[k]
    BY DrainFacts
  <2>3. \A k \in Key : store'[k] # None => IsReal(store'[k])
    BY <1>4, <1>5, <2>1, <2>2, KeyFacts
  <2> QED BY <2>3 DEF OnlyRealTowers, IsReal
<1>8. RealInHand' /\ ReadableInHand'
  BY <1>1, <1>3, <1>4 DEF IInv, RealInHand, ReadableInHand, Live, TypeOK, Pages
<1>9. HiddenIsSaved'
  <2>1. CASE run.owns
    BY <1>1, <2>1, DrainFacts DEF IInv, HiddenIsSaved, HiddenInHand, Live
  <2>2. CASE ~run.owns
    BY <1>1, <2>2, DrainFacts DEF IInv, HiddenIsSaved, Live
  <2> QED BY <2>1, <2>2
<1>10. HiddenInHand'
  BY <1>1, <1>3 DEF HiddenInHand
<1>11. MomentsInOrder'
  BY <1>1, <1>2, <1>3, <1>5 DEF IInv, MomentsInOrder
<1>12. KeptIsStashed'
  BY <1>1, DrainFacts, KeyFacts DEF IInv, KeptIsStashed
<1>13. WillReload'
  <2>1. run' # None => run'.text = live /\ run'.owns = TRUE
    BY <1>3
  <2>2. ASSUME via # "slot", run' = None, ~failed'
        PROVE  BootTower(store', build).tower = live.tower
    <3>1. ~run.queued
      BY <2>2, DrainFacts
    <3>2. CASE run.owns
      <4>1. store'["auto"] = run.text
        BY <2>2, <3>2, DrainFacts
      <4>2. BootTower(store', build) = run.text
        BY <1>4, <4>1, AutoIsStored
      <4>3. run.text.tower = live.tower
        BY <1>1, <1>4, <2>2, <3>1, <3>2 DEF IInv, WillReload
      <4> QED BY <4>2, <4>3
    <3>3. CASE ~run.owns
      <4>1. store' = store /\ ~failed
        BY <2>2, <3>3, DrainFacts
      <4> QED BY <1>1, <1>4, <2>2, <3>1, <3>3, <4>1 DEF IInv, WillReload, Idle
    <3> QED BY <3>2, <3>3
  <2> QED BY <1>1, <2>1, <2>2 DEF WillReload, Idle
<1>14. StoreFits'
  BY DrainFacts
<1> QED BY <1>6, <1>7, <1>8, <1>9, <1>10, <1>11, <1>12, <1>13, <1>14 DEF IInv

\* A slot written or emptied: the other keys are as they were.
LEMMA SlotKeeps ==
    ASSUME IInv, NEW k \in Slot, store' \in Stores, StoreFits',
           \A m \in Key \ {k} : store'[m] = store[m],
           store'[k] # None => IsReal(store'[k]),
           UNCHANGED <<run, autoAt, failed, page, hidden, live, via, activating,
                       reloading, now, asked, tab>>
    PROVE  IInv'
<1>1. store'["auto"] = store["auto"] /\ store'["legacy"] = store["legacy"]
      /\ store'["stash"] = store["stash"]
  BY KeyFacts
<1>2. TypeOK'
  BY DEF IInv, TypeOK, Stores, tab
<1>3. OnlyRealTowers'
  <2>1. \A m \in Key : store'[m] # None => IsReal(store'[m])
    BY StoreFacts
  <2> QED BY <2>1 DEF OnlyRealTowers, IsReal
<1>4. RealInHand' /\ ReadableInHand' /\ MomentsInOrder'
  BY DEF IInv, RealInHand, ReadableInHand, MomentsInOrder, Live, tab
<1>5. HiddenIsSaved' /\ HiddenInHand' /\ KeptIsStashed'
  BY <1>1 DEF IInv, HiddenIsSaved, HiddenInHand, KeptIsStashed, Live, tab
<1>6. WillReload'
  <2>1. BootTower(store', build) = BootTower(store, build)
    BY <1>1, StoredAgree
  <2> QED BY <2>1 DEF IInv, WillReload, Idle, tab
<1> QED BY <1>2, <1>3, <1>4, <1>5, <1>6 DEF IInv

LEMMA SaveSlotKeeps == ASSUME IInv, NEW k \in Slot, SaveSlot(k) PROVE IInv'
<1> DEFINE w == Write(store, k, live)
<1>1. store \in Stores /\ Used(store, Key) <= Quota /\ live \in Text /\ k \in Key
  BY StoreFacts, KeyFacts DEF IInv, TypeOK
<1>2. IsReal(live) /\ store' = w.st
  BY DEF IInv, RealInHand, Live, SaveSlot
<1>3. /\ w.ok \in BOOLEAN /\ w.st \in Stores /\ Used(w.st, Key) <= Quota
      /\ w.ok => w.st[k] = live /\ \A m \in Key \ {k} : w.st[m] = store[m]
      /\ ~w.ok => w.st = store
  BY <1>1, WriteFacts
<1> HIDE DEF w
<1>4. store' \in Stores /\ StoreFits' /\ \A m \in Key \ {k} : store'[m] = store[m]
  BY <1>2, <1>3 DEF StoreFits
<1>5. store'[k] # None => IsReal(store'[k])
  BY <1>1, <1>2, <1>3, StoreFacts
<1>6. UNCHANGED <<run, autoAt, failed, page, hidden, live, via, activating,
                  reloading, now, asked, tab>>
  BY DEF SaveSlot
<1> QED BY <1>4, <1>5, <1>6, SlotKeeps

LEMMA DeleteSlotKeeps == ASSUME IInv, NEW k \in Slot, DeleteSlot(k) PROVE IInv'
<1>1. store \in Stores /\ Used(store, Key) <= Quota /\ k \in Key
  BY StoreFacts, KeyFacts
<1>2. store' = Put(store, k, None)
  BY DEF DeleteSlot
<1>3. /\ store' \in Stores /\ store'[k] = None
      /\ \A m \in Key \ {k} : store'[m] = store[m]
      /\ Used(store', Key) = Used(store, Key \ {k}) + 0
  BY <1>1, <1>2, UsedPut
<1>4. StoreFits'
  <2>1. Used(store, Key \ {k}) \in Nat /\ SizeAt(store, k) \in Nat
    BY <1>1, CellsFinite, SizeAtIsNat
  <2>2. Used(store, Key) = Used(store, Key \ {k}) + SizeAt(store, k)
    BY <1>1, UsedSplit
  <2> QED BY <1>1, <1>3, <2>1, <2>2, SizeAssumption DEF StoreFits
<1>5. UNCHANGED <<run, autoAt, failed, page, hidden, live, via, activating,
                  reloading, now, asked, tab>>
  BY DEF DeleteSlot
<1> QED BY <1>3, <1>4, <1>5, SlotKeeps

LEMMA PlayKeeps == IInv /\ Play => IInv'
<1> SUFFICES ASSUME IInv, Play PROVE IInv'
  OBVIOUS
<1>1. TypeOK /\ now \in 1..MaxNow /\ now < MaxNow /\ now' = now + 1 /\ live \in Text
      /\ MaxNow \in Nat
  BY SizeAssumption DEF IInv, TypeOK, Play
<1>2. PICK size \in Size : live' = [live EXCEPT !.moment = now', !.size = size]
  BY DEF Play
<1>3. now' \in 1..MaxNow /\ now' \in 0..MaxNow
  BY <1>1
<1>4. live' \in Text /\ live'.tower = live.tower
  BY <1>1, <1>2, <1>3 DEF Text
<1>5. Readable(live', build)
  <2>1. Readable(live, build)
    BY DEF IInv, ReadableInHand
  <2> QED BY <1>4, <2>1, SizeIsNat DEF Readable
<1>6. UNCHANGED <<disk, page, hidden, via, activating, reloading, asked, tab>>
      /\ page = "play" /\ ~hidden
  BY DEF Play
<1>7. TypeOK'
  BY <1>1, <1>3, <1>4, <1>6 DEF TypeOK, disk, tab
<1>8. StoreFits' /\ OnlyRealTowers' /\ KeptIsStashed'
  BY <1>6 DEF IInv, StoreFits, OnlyRealTowers, KeptIsStashed, disk, tab
<1>9. RealInHand' /\ ReadableInHand'
  BY <1>4, <1>5, <1>6 DEF IInv, RealInHand, ReadableInHand, Live, IsReal, disk, tab
<1>10. HiddenIsSaved' /\ HiddenInHand'
  BY <1>6 DEF HiddenIsSaved, HiddenInHand
<1>11. MomentsInOrder'
  <2>1. autoAt \in 0..MaxNow /\ run \in Runs /\ (run # None => run \in Run)
    BY StoreFacts DEF IInv, TypeOK
  <2> QED BY <1>1, <1>6, <2>1 DEF IInv, MomentsInOrder, disk, Run
<1>12. WillReload'
  BY <1>4, <1>6 DEF IInv, WillReload, Idle, disk, tab
<1> QED BY <1>7, <1>8, <1>9, <1>10, <1>11, <1>12 DEF IInv

\* A tower that comes from a slot: only the page follows it.
LEMMA LoadFromSlotKeeps ==
    ASSUME IInv, NEW k \in Slot \cup {"auto"}, LoadFromSlot(k) PROVE IInv'
<1> DEFINE text == IF k = "auto" THEN Stored(store, build) ELSE store[k]
<1>1. Readable(text, build) /\ Follow(text, "slot") /\ UNCHANGED <<disk, asked>>
      /\ page \in {"splash", "play"} /\ ~hidden
  BY DEF LoadFromSlot
<1>2. store \in Stores /\ build \in 1..2 /\ k \in Key
  BY StoreFacts, KeyFacts DEF IInv, TypeOK
<1>3. text \in Text /\ IsReal(text)
  <2>1. text \in Text \cup {None} /\ \E m \in Key : text = store[m]
    <3>1. CASE k = "auto"
      <4>1. Readable(Stored(store, build), build)
        BY <1>1, <3>1
      <4>2. Stored(store, build) # None
        BY <4>1 DEF Readable
      <4> QED BY <1>2, <3>1, <4>2, StoredFacts, KeyFacts
    <3>2. CASE k # "auto"
      BY <1>2, <3>2 DEF Stores
    <3> QED BY <3>1, <3>2
  <2>2. text # None
    BY <1>1 DEF Readable
  <2> QED BY <2>1, <2>2, StoreFacts
<1> HIDE DEF text
<1>4. /\ now < MaxNow /\ now' = now + 1 /\ live' = text /\ via' = "slot" /\ page' = "play"
      /\ UNCHANGED <<hidden, activating, reloading, tab>>
  BY <1>1 DEF Follow
<1>5. TypeOK'
  <2>1. now' \in 1..MaxNow
    BY <1>4, SizeAssumption DEF IInv, TypeOK
  <2> QED BY <1>1, <1>3, <1>4, <2>1 DEF IInv, TypeOK, disk, tab, Pages
<1>6. StoreFits' /\ OnlyRealTowers' /\ KeptIsStashed'
  BY <1>1, <1>4 DEF IInv, StoreFits, OnlyRealTowers, KeptIsStashed, disk, tab
<1>7. RealInHand' /\ ReadableInHand'
  BY <1>1, <1>3, <1>4 DEF IInv, RealInHand, ReadableInHand, IsReal, disk, tab
<1>8. HiddenIsSaved' /\ HiddenInHand' /\ WillReload'
  BY <1>1, <1>4 DEF HiddenIsSaved, HiddenInHand, WillReload
<1>9. MomentsInOrder'
  <2>1. /\ autoAt \in 0..MaxNow /\ run \in Runs /\ (run # None => run \in Run)
        /\ now \in 1..MaxNow
    BY StoreFacts DEF IInv, TypeOK
  <2> QED BY <1>1, <1>4, <2>1 DEF IInv, MomentsInOrder, disk, Run
<1> QED BY <1>5, <1>6, <1>7, <1>8, <1>9 DEF IInv

\* A tower swapped in and autosaved, with what was in hand before as it was or no
\* longer owning the key.  The rest of storage may lose a free slot.
LEMMA SwapKeeps ==
    ASSUME IInv, NEW text \in Text, IsReal(text), Readable(text, build),
           NEW how \in {"load", "found", "import"}, ~hidden, page \in {"splash", "play"},
           Follow(text, how), NEW held \in Runs,
           held = run \/ held = Retired(run),
           run' = Autosave(held, text, now'), asked' = now',
           store' \in Stores, StoreFits', OnlyRealTowers', failed' \in BOOLEAN,
           store'["stash"] = store["stash"],
           autoAt' \in 0..MaxNow,
           autoAt' = autoAt \/ (autoAt' = now /\ held = Retired(run))
    PROVE  IInv'
<1>1. /\ now < MaxNow /\ now' = now + 1 /\ live' = text /\ via' = how /\ page' = "play"
      /\ UNCHANGED <<hidden, activating, reloading, tab>>
  BY DEF Follow
<1>2. TypeOK /\ now \in 1..MaxNow /\ autoAt \in 0..MaxNow /\ run \in Runs
      /\ (run # None => run \in Run)
  BY StoreFacts DEF IInv, TypeOK
<1>3. now' \in 1..MaxNow /\ now' \in 0..MaxNow
  BY <1>1, <1>2, SizeAssumption
<1>4. /\ held = None <=> run = None
      /\ run # None => /\ held.text = run.text /\ held.at = run.at
                       /\ held.owns => run.owns /\ held = run
  BY <1>2, RetiredFacts
<1>5. /\ run' \in Runs /\ run' # None
      /\ run = None => /\ run'.text = text /\ run'.at = now'
                       /\ run'.owns = TRUE /\ run'.queued = FALSE
      /\ run # None => /\ run'.text = run.text /\ run'.at = run.at
                       /\ run'.owns = held.owns /\ run'.queued = TRUE
  <2>1. CASE run = None
    <3>1. run' = Compressing(text, now')
      BY <1>4, <2>1 DEF Autosave
    <3>2. LET r == Compressing(text, now')
          IN  /\ r \in Runs /\ r # None /\ r.text = text /\ r.at = now'
              /\ r.owns = TRUE /\ r.queued = FALSE
      BY <1>3, CompressingFacts
    <3> QED BY <2>1, <3>1, <3>2
  <2>2. CASE run # None
    BY <1>3, <1>4, <2>2, AutosaveFacts
  <2> QED BY <2>1, <2>2
<1>6. TypeOK'
  <2>1. store' \in [Key -> Text \cup {None}] /\ run' \in {None} \cup Run
    BY <1>5 DEF Stores, Runs
  <2> QED BY <1>1, <1>2, <1>3, <2>1 DEF TypeOK, tab, Pages
<1>7. RealInHand' /\ ReadableInHand'
  BY <1>1, <1>5 DEF IInv, RealInHand, ReadableInHand, IsReal, tab
<1>8. HiddenIsSaved' /\ HiddenInHand'
  BY <1>1 DEF HiddenIsSaved, HiddenInHand
<1>9. KeptIsStashed'
  BY <1>1 DEF IInv, KeptIsStashed, tab
<1>10. MomentsInOrder'
  <2>1. run # None => run.at \in 1..MaxNow
    BY <1>2 DEF Run
  <2>2. autoAt' <= now /\ autoAt <= now
    BY <1>2 DEF IInv, MomentsInOrder
  <2>3. run # None => run.at <= now
    BY DEF IInv, MomentsInOrder
  <2>4. run # None /\ held.owns => autoAt' <= run.at
    BY <1>2, <1>4, RetiredFacts DEF IInv, MomentsInOrder
  <2> QED BY <1>1, <1>2, <1>3, <1>5, <2>1, <2>2, <2>3, <2>4 DEF MomentsInOrder
<1>11. WillReload'
  BY <1>1, <1>5 DEF WillReload, Idle
<1> QED BY <1>6, <1>7, <1>8, <1>9, <1>10, <1>11 DEF IInv

LEMMA LoadKeeps == IInv /\ Load => IInv'
<1> SUFFICES ASSUME IInv, Load PROVE IInv'
  OBVIOUS
<1> DEFINE text == Stored(store, build)
<1>1. Readable(text, build) /\ TowerSwapped(text, "load") /\ page = "play" /\ ~hidden
  BY DEF Load
<1>2. store \in Stores /\ build \in 1..2 /\ run \in Runs /\ failed \in BOOLEAN
      /\ autoAt \in 0..MaxNow
  BY StoreFacts DEF IInv, TypeOK
<1>3. text \in Text /\ IsReal(text)
  <2>1. text # None
    BY <1>1 DEF Readable
  <2> QED BY <1>2, <2>1, StoredFacts, StoreFacts, KeyFacts
<1> HIDE DEF text
<1>4. /\ Follow(text, "load") /\ run' = Autosave(run, text, now') /\ asked' = now'
      /\ UNCHANGED <<store, autoAt, failed>>
  BY <1>1 DEF TowerSwapped
<1>5. StoreFits' /\ OnlyRealTowers'
  BY <1>4 DEF IInv, StoreFits, OnlyRealTowers
<1> QED BY <1>1, <1>2, <1>3, <1>4, <1>5, SwapKeeps

\* A tower that comes from outside is one the player has, and is read.
LEMMA ArrivalFacts ==
    ASSUME IInv, NEW text \in Arrivals
    PROVE  text \in Text /\ IsReal(text) /\ Readable(text, build)
<1>1. now \in 1..MaxNow /\ now < MaxNow /\ now + 1 \in 0..MaxNow
  BY SizeAssumption DEF IInv, TypeOK, Arrivals
<1>2. text \in Text /\ text.tower \in Tower
  BY <1>1 DEF Arrivals, Text
<1> QED BY <1>2, NameAssumption, SizeIsNat DEF IsReal, Readable

LEMMA ArrivalKeeps ==
    ASSUME IInv, page \in {"splash", "play"}, ~hidden,
           NEW text \in Arrivals, NEW how \in {"found", "import"}, TowerSwapped(text, how)
    PROVE  IInv'
<1>1. text \in Text /\ IsReal(text) /\ Readable(text, build)
  BY ArrivalFacts
<1>2. store \in Stores /\ run \in Runs /\ failed \in BOOLEAN /\ autoAt \in 0..MaxNow
  BY StoreFacts DEF IInv, TypeOK
<1>3. /\ Follow(text, how) /\ run' = Autosave(run, text, now') /\ asked' = now'
      /\ UNCHANGED <<store, autoAt, failed>>
  BY DEF TowerSwapped
<1>4. StoreFits' /\ OnlyRealTowers'
  BY <1>3 DEF IInv, StoreFits, OnlyRealTowers
<1> QED BY <1>1, <1>2, <1>3, <1>4, SwapKeeps

LEMMA NewGameKeeps == IInv /\ NewGame => IInv'
BY ArrivalKeeps DEF NewGame

LEMMA ImportGameKeeps == IInv /\ ImportGame => IInv'
BY ArrivalKeeps DEF ImportGame

\* A 1994 tower imported: the tower in play is stored before the imported one is
\* in hand, and the copy fills a slot that was free.
LEMMA ImportLegacyFacts ==
    ASSUME IInv, ImportLegacy
    PROVE  \E text \in Arrivals, held \in Runs :
              /\ page \in {"splash", "play"} /\ ~hidden
              /\ Follow(text, "import") /\ run' = Autosave(held, text, now') /\ asked' = now'
              /\ held = run \/ held = Retired(run)
              /\ store' \in Stores /\ StoreFits' /\ OnlyRealTowers' /\ failed' \in BOOLEAN
              /\ autoAt' = autoAt \/ (autoAt' = now /\ held = Retired(run))
              /\ store'["stash"] = store["stash"]
              /\ \/ store'["auto"] = store["auto"] /\ store'["legacy"] = store["legacy"]
                 \/ store'["auto"] = live /\ page = "play"
<1> DEFINE flushes == page = "play"
           flushed == IF flushes THEN WriteAuto(store, live) ELSE [ok |-> TRUE, st |-> store]
           held    == IF flushes THEN Retired(run) ELSE run
<1>1. PICK text \in Arrivals :
        /\ Follow(text, "import")
        /\ run' = Autosave(held, text, now') /\ asked' = now'
        /\ autoAt' = IF flushes /\ flushed.ok THEN now ELSE autoAt
        /\ failed' = IF flushes THEN ~flushed.ok ELSE failed
        /\ IF FreeSlots(flushed.st) = {} THEN store' = flushed.st
           ELSE \E k \in FreeSlots(flushed.st) : store' = Write(flushed.st, k, text).st
  BY DEF ImportLegacy
<1>2. page \in {"splash", "play"} /\ ~hidden
  BY DEF ImportLegacy
<1>3. /\ store \in Stores /\ Used(store, Key) <= Quota /\ live \in Text /\ run \in Runs
      /\ failed \in BOOLEAN /\ text \in Text /\ IsReal(text)
  BY StoreFacts, ArrivalFacts DEF IInv, TypeOK
<1>4. /\ flushed.ok \in BOOLEAN /\ flushed.st \in Stores /\ Used(flushed.st, Key) <= Quota
      /\ \A k \in Key \ {"auto", "legacy"} : flushed.st[k] = store[k]
      /\ \/ flushed.st = store
         \/ /\ flushes /\ flushed.st["auto"] = live
            /\ flushed.st["legacy"] \in {None, store["legacy"]}
  <2>1. CASE flushes
    BY <1>3, <2>1, WriteAutoFacts
  <2>2. CASE ~flushes
    BY <1>3, <2>2
  <2> QED BY <2>1, <2>2
<1>5. \A k \in Key : flushed.st[k] # None => IsReal(flushed.st[k])
  <2>1. \A k \in Key : store[k] # None => IsReal(store[k])
    BY StoreFacts
  <2>2. flushes => IsReal(live)
    BY DEF IInv, RealInHand, Live
  <2> HIDE DEF flushed, flushes
  <2> QED BY <1>4, <2>1, <2>2, KeyFacts
<1>6. held \in Runs /\ (held = run \/ held = Retired(run)) /\ (flushes => held = Retired(run))
  BY <1>3, RetiredFacts
<1>7. failed' \in BOOLEAN /\ (autoAt' = autoAt \/ (autoAt' = now /\ flushes))
  BY <1>1, <1>3, <1>4
<1> HIDE DEF flushed
<1>8. /\ store' \in Stores /\ Used(store', Key) <= Quota
      /\ \A k \in Key \ Slot : store'[k] = flushed.st[k]
      /\ \A k \in Key : store'[k] # None => IsReal(store'[k])
  <2>1. CASE FreeSlots(flushed.st) = {}
    BY <1>1, <1>4, <1>5, <2>1
  <2>2. CASE FreeSlots(flushed.st) # {}
    <3>1. PICK k \in FreeSlots(flushed.st) : store' = Write(flushed.st, k, text).st
      BY <1>1, <2>2
    <3>2. k \in Slot /\ k \in Key
      BY KeyFacts DEF FreeSlots
    <3> DEFINE w == Write(flushed.st, k, text)
    <3>3. /\ w.ok \in BOOLEAN /\ w.st \in Stores /\ Used(w.st, Key) <= Quota
          /\ w.ok => w.st[k] = text /\ \A m \in Key \ {k} : w.st[m] = flushed.st[m]
          /\ ~w.ok => w.st = flushed.st
      BY <1>3, <1>4, <3>2, WriteFacts
    <3> QED BY <1>3, <1>5, <3>1, <3>2, <3>3
  <2> QED BY <2>1, <2>2
<1>9. StoreFits' /\ OnlyRealTowers'
  BY <1>8 DEF StoreFits, OnlyRealTowers, IsReal
<1>10. /\ store'["stash"] = flushed.st["stash"] /\ store'["auto"] = flushed.st["auto"]
       /\ store'["legacy"] = flushed.st["legacy"] /\ flushed.st["stash"] = store["stash"]
  BY <1>4, <1>8, KeyFacts
<1> HIDE DEF held
<1>11. \/ store'["auto"] = store["auto"] /\ store'["legacy"] = store["legacy"]
       \/ store'["auto"] = live /\ page = "play"
  BY <1>4, <1>10
<1> QED BY <1>1, <1>2, <1>6, <1>7, <1>8, <1>9, <1>10, <1>11

LEMMA ImportLegacyKeeps == IInv /\ ImportLegacy => IInv'
<1> SUFFICES ASSUME IInv, ImportLegacy PROVE IInv'
  OBVIOUS
<1>1. PICK text \in Arrivals, held \in Runs :
        /\ page \in {"splash", "play"} /\ ~hidden
        /\ Follow(text, "import") /\ run' = Autosave(held, text, now') /\ asked' = now'
        /\ held = run \/ held = Retired(run)
        /\ store' \in Stores /\ StoreFits' /\ OnlyRealTowers' /\ failed' \in BOOLEAN
        /\ autoAt' = autoAt \/ (autoAt' = now /\ held = Retired(run))
        /\ store'["stash"] = store["stash"]
  BY ImportLegacyFacts
<1>2. text \in Text /\ IsReal(text) /\ Readable(text, build)
  BY ArrivalFacts
<1>3. autoAt' \in 0..MaxNow
  <2>1. now \in 1..MaxNow /\ autoAt \in 0..MaxNow
    BY DEF IInv, TypeOK
  <2> QED BY <1>1, <2>1
<1> QED BY <1>1, <1>2, <1>3, SwapKeeps

-----------------------------------------------------------------------------
(* Pages that end and begin.                                               *)

\* A boot: storage keeps all but the stash, which keeps a newer build's save, and
\* the engine holds what loads, or the backdrop.
LEMMA BootStep ==
    ASSUME IInv, NEW b \in build..2, NEW resumes \in BOOLEAN, Boot(b, resumes)
    PROVE  /\ store' \in Stores /\ StoreFits' /\ \A k \in Key \ {"stash"} : store'[k] = store[k]
           /\ OnlyRealTowers'
           /\ IsNewer(store["stash"]) => IsNewer(store'["stash"])
           /\ keptNewer' \in BOOLEAN /\ (keptNewer' => IsNewer(store'["stash"]))
           /\ BootTower(store', b) = BootTower(store, b)
           /\ live' = BootTower(store, b) /\ live' \in Text /\ Readable(live', b)
           /\ live'.tower # "halfWritten" /\ (page' = "play" => IsReal(live'))
           /\ page' \in {"play", "splash"} /\ build' = b
<1> DEFINE refused == Refused(store, b) # {}
           raw     == store[StashKey(store, b)]
           stashed == IF refused THEN Stash(store, raw) ELSE [ok |-> FALSE, st |-> store]
<1>1. /\ store \in Stores /\ Used(store, Key) <= Quota /\ build \in 1..2 /\ b \in 1..2
      /\ \A k \in Key : store[k] # None => store[k] \in Text /\ IsReal(store[k])
  BY StoreFacts DEF IInv, TypeOK
<1>2. refused => raw \in Text
  BY <1>1, BootFacts
<1>3. /\ stashed.ok \in BOOLEAN /\ stashed.st \in Stores /\ Used(stashed.st, Key) <= Quota
      /\ \A k \in Key \ {"stash"} : stashed.st[k] = store[k]
      /\ stashed.ok => stashed.st["stash"] = raw /\ refused
      /\ ~stashed.ok => stashed.st = store
      /\ IsNewer(store["stash"]) => IsNewer(stashed.st["stash"])
  <2>1. CASE refused
    <3> HIDE DEF raw, refused
    <3> QED BY <1>1, <1>2, <2>1, StashFacts
  <2>2. CASE ~refused
    BY <1>1, <2>2
  <2> QED BY <2>1, <2>2
<1>4. refused => IsReal(raw)
  <2>1. refused => raw \in {store["auto"], store["legacy"]}
    BY DEF StashKey
  <2>2. refused => raw # None
    BY <1>2, SizeIsNat
  <2> HIDE DEF raw, refused
  <2> QED BY <1>1, <2>1, <2>2, KeyFacts
<1>5. /\ store' = stashed.st /\ keptNewer' = (stashed.ok /\ IsNewer(raw))
      /\ live' = BootTower(store, b) /\ build' = b
      /\ page' = IF resumes /\ Stored(store, b) # None THEN "play" ELSE "splash"
  BY DEF Boot
<1> HIDE DEF stashed, raw, refused
<1>6. \A k \in Key : store'[k] # None => IsReal(store'[k])
  BY <1>1, <1>3, <1>4, <1>5, KeyFacts
<1>7. OnlyRealTowers' /\ StoreFits'
  BY <1>3, <1>5, <1>6 DEF OnlyRealTowers, IsReal, StoreFits
<1>8. BootTower(store', b) = BootTower(store, b)
  <2>1. store'["auto"] = store["auto"] /\ store'["legacy"] = store["legacy"]
    BY <1>3, <1>5, KeyFacts
  <2> QED BY <2>1, StoredAgree
<1>9. live' \in Text /\ Readable(live', b)
  BY <1>1, <1>5, BootFacts
<1>10. live'.tower # "halfWritten" /\ (page' = "play" => IsReal(live'))
  <2>1. CASE Stored(store, b) = None
    BY <1>5, <2>1, BackdropFacts DEF BootTower
  <2>2. CASE Stored(store, b) # None
    <3>1. live' = Stored(store, b) /\ live' \in {store["auto"], store["legacy"]}
      BY <1>1, <1>5, <2>2, StoredFacts DEF BootTower
    <3>2. IsReal(live')
      BY <1>1, <2>2, <3>1, KeyFacts
    <3> QED BY <3>2 DEF IsReal
  <2> QED BY <2>1, <2>2
<1>11. keptNewer' \in BOOLEAN /\ (keptNewer' => IsNewer(store'["stash"]))
  BY <1>3, <1>5
<1> QED BY <1>3, <1>5, <1>7, <1>8, <1>9, <1>10, <1>11

LEMMA BootKeeps ==
    ASSUME IInv, NEW b \in build..2, NEW resumes \in BOOLEAN, Boot(b, resumes),
           crashes' \in 0..CrashLoopPages
    PROVE  IInv'
<1>1. /\ store' \in Stores /\ StoreFits' /\ OnlyRealTowers'
      /\ keptNewer' \in BOOLEAN /\ (keptNewer' => IsNewer(store'["stash"]))
      /\ BootTower(store', b) = live' /\ live' \in Text /\ Readable(live', b)
      /\ live'.tower # "halfWritten" /\ (page' = "play" => IsReal(live'))
      /\ page' \in {"play", "splash"} /\ build' = b
  BY BootStep
<1>2. /\ hidden' = FALSE /\ via' = "boot" /\ run' = None /\ activating' = FALSE
      /\ reloading' = FALSE /\ asked' = 0 /\ failed' = FALSE
      /\ UNCHANGED <<now, autoAt>>
  BY DEF Boot
<1>3. b \in 1..2 /\ now \in 1..MaxNow /\ autoAt \in 0..MaxNow /\ 0 \in 0..MaxNow
  BY SizeAssumption DEF IInv, TypeOK
<1>4. TypeOK'
  <2>1. store' \in [Key -> Text \cup {None}]
    BY <1>1 DEF Stores
  <2>2. page' \in Pages /\ build' \in 1..2
    BY <1>1, <1>3 DEF Pages
  <2> QED BY <1>1, <1>2, <1>3, <2>1, <2>2 DEF TypeOK
<1>5. RealInHand' /\ ReadableInHand'
  BY <1>1, <1>2 DEF RealInHand, ReadableInHand, Live
<1>6. HiddenIsSaved' /\ HiddenInHand' /\ KeptIsStashed'
  BY <1>1, <1>2 DEF HiddenIsSaved, HiddenInHand, KeptIsStashed
<1>7. MomentsInOrder'
  BY <1>2 DEF IInv, MomentsInOrder
<1>8. WillReload'
  BY <1>1, <1>2 DEF WillReload
<1> QED BY <1>1, <1>4, <1>5, <1>6, <1>7, <1>8 DEF IInv

\* Every page that begins is a boot, of this build or the next.
LEMMA Boots ==
    ASSUME IInv, Open \/ Reload \/ CrashReload \/ UpdateReload \/ UpdateStopped
    PROVE  /\ \E b \in build..2, resumes \in BOOLEAN : Boot(b, resumes)
           /\ crashes' \in 0..CrashLoopPages
<1>1. build \in 1..2 /\ build \in build..2 /\ 2 \in build..2
      /\ crashes \in 0..CrashLoopPages /\ 0 \in 0..CrashLoopPages
  BY SizeAssumption DEF IInv, TypeOK
<1>2. CASE Open
  BY <1>1, <1>2 DEF Open
<1>3. CASE Reload
  BY <1>1, <1>3 DEF Reload
<1>4. CASE CrashReload
  BY <1>1, <1>4 DEF CrashReload
<1>5. CASE UpdateReload
  BY <1>1, <1>5 DEF UpdateReload
<1>6. CASE UpdateStopped
  BY <1>1, <1>6 DEF UpdateStopped
<1> QED BY <1>2, <1>3, <1>4, <1>5, <1>6

LEMMA CloseKeeps == IInv /\ Close => IInv'
<1> SUFFICES ASSUME IInv, Close PROVE IInv'
  OBVIOUS
<1>1. TypeOK'
  <2>1. TypeOK /\ 0 \in 0..MaxNow /\ "closed" \in Pages
    BY SizeAssumption DEF IInv, Pages
  <2>2. /\ page' = "closed" /\ hidden' = FALSE /\ run' = None /\ activating' = FALSE
        /\ reloading' = FALSE /\ asked' = 0 /\ failed' = FALSE /\ keptNewer' = FALSE
        /\ UNCHANGED <<store, build, live, via, crashes, now, autoAt>>
    BY DEF Close
  <2> QED BY <2>1, <2>2 DEF TypeOK
<1>2. StoreFits' /\ OnlyRealTowers' /\ KeptIsStashed'
  BY DEF IInv, Close, StoreFits, OnlyRealTowers, KeptIsStashed
<1>3. RealInHand' /\ ReadableInHand'
  BY DEF IInv, Close, RealInHand, ReadableInHand, Live
<1>4. HiddenIsSaved' /\ HiddenInHand' /\ WillReload'
  BY DEF Close, HiddenIsSaved, HiddenInHand, WillReload
<1>5. MomentsInOrder'
  BY DEF IInv, Close, MomentsInOrder
<1> QED BY <1>1, <1>2, <1>3, <1>4, <1>5 DEF IInv

-----------------------------------------------------------------------------
(* The theorems.                                                           *)

\* Every step keeps the invariant.
LEMMA NextKeeps == IInv /\ [Next]_vars => IInv'
<1> SUFFICES ASSUME IInv, [Next]_vars PROVE IInv'
  OBVIOUS
<1>1. CASE UNCHANGED vars
  BY <1>1, StutterKeeps
<1>2. CASE TimerTick \/ DrainAutosaves \/ QuickSave \/ Hide \/ Show
  BY <1>2, TimerTickKeeps, DrainAutosavesKeeps, QuickSaveKeeps, HideKeeps, ShowKeeps
<1>3. CASE \E k \in Slot : SaveSlot(k) \/ DeleteSlot(k)
  BY <1>3, SaveSlotKeeps, DeleteSlotKeeps
<1>4. CASE \E k \in Slot \cup {"auto"} : LoadFromSlot(k)
  BY <1>4, LoadFromSlotKeeps
<1>5. CASE Play \/ Continue \/ Load \/ NewGame \/ ImportGame \/ ImportLegacy
  BY <1>5, PlayKeeps, ContinueKeeps, LoadKeeps, NewGameKeeps, ImportGameKeeps,
     ImportLegacyKeeps
<1>6. CASE Open \/ Reload \/ CrashReload \/ UpdateReload \/ UpdateStopped
  BY <1>6, Boots, BootKeeps
<1>7. CASE Close \/ Trap \/ ContextLost \/ UpdateNow \/ ActivateFails
  BY <1>7, CloseKeeps, TrapKeeps, ContextLostKeeps, UpdateNowKeeps, ActivateFailsKeeps
<1> QED BY <1>1, <1>2, <1>3, <1>4, <1>5, <1>6, <1>7 DEF Next

\* The inductive invariant holds of every session (storage/SaveGame.ts,
\* game/saveLoad.ts, engineCrash/).
THEOREM Invariance == Spec => []IInv
<1>1. Init => IInv
  BY InitHolds
<1>2. IInv /\ [Next]_vars => IInv'
  BY NextKeeps
<1> QED BY <1>1, <1>2, PTL DEF Spec

\* Every variable holds what its declaration lets it hold, storage included: a
\* key holds a save or nothing, whatever is written, kept aside or put back.
THEOREM Typed == Spec => []TypeOK
<1>1. IInv => TypeOK
  BY DEF IInv
<1> QED BY <1>1, Invariance, PTL

\* No key ever keeps the tower behind a first title screen, nor what an engine
\* that trapped would write (autosaveSchedule.ts, portLifecycle.ts saveText).
THEOREM RealTowersKept == Spec => []OnlyRealTowers
<1>1. IInv => OnlyRealTowers
  BY DEF IInv
<1> QED BY <1>1, Invariance, PTL

\* A tab in the background keeps the tower it was hidden with, whatever save was
\* in flight (saveOnHide).
THEOREM HiddenTabKept == Spec => []HiddenIsSaved
<1>1. IInv => HiddenIsSaved
  BY DEF IInv
<1> QED BY <1>1, Invariance, PTL

\* No step but a save writes the autosave key, and a save writes what was captured
\* no earlier than the text it replaces.
LEMMA StepBackwards == IInv /\ [Next]_vars => [autoAt' >= autoAt]_vars
<1> SUFFICES ASSUME IInv, Next PROVE autoAt' >= autoAt
  BY DEF vars
<1>1. autoAt \in 0..MaxNow /\ now \in 1..MaxNow /\ autoAt <= now /\ store \in Stores
      /\ StoreFits /\ run \in Runs /\ live \in Text
  BY StoreFacts DEF IInv, TypeOK, MomentsInOrder
<1>2. ASSUME autoAt' = autoAt \/ autoAt' = now PROVE autoAt' >= autoAt
  BY <1>1, <1>2
<1>3. ASSUME SaveNow(live) PROVE autoAt' = autoAt \/ autoAt' = now
  BY <1>1, <1>3, SaveNowFacts
<1>4. CASE TimerTick \/ Show \/ Play \/ Continue \/ Trap \/ ActivateFails \/ Close
  BY <1>2, <1>4 DEF TimerTick, Show, Play, Continue, Trap, ActivateFails, Close, disk
<1>5. CASE QuickSave \/ Hide \/ ContextLost \/ UpdateNow
  <2>1. SaveNow(live) \/ UNCHANGED autoAt
    BY <1>5 DEF QuickSave, Hide, ContextLost, UpdateNow, SavesNow, disk
  <2> QED BY <1>2, <1>3, <2>1
<1>6. CASE DrainAutosaves
  <2>1. run \in Run /\ run # None /\ run.owns \in BOOLEAN /\ run.at \in 1..MaxNow
    BY <1>6, DrainFacts DEF DrainAutosaves, Run
  <2>2. autoAt' = autoAt \/ (autoAt' = run.at /\ run.owns)
    BY <1>6, DrainFacts
  <2>3. run.owns => autoAt <= run.at
    BY <2>1 DEF IInv, MomentsInOrder
  <2> QED BY <1>1, <2>1, <2>2, <2>3
<1>7. CASE \E k \in Slot : SaveSlot(k) \/ DeleteSlot(k)
  BY <1>2, <1>7 DEF SaveSlot, DeleteSlot
<1>8. CASE \E k \in Slot \cup {"auto"} : LoadFromSlot(k)
  BY <1>2, <1>8 DEF LoadFromSlot, disk
<1>9. CASE Load \/ NewGame \/ ImportGame
  BY <1>2, <1>9 DEF Load, NewGame, ImportGame, TowerSwapped
<1>10. CASE ImportLegacy
  BY <1>2, <1>10, ImportLegacyFacts
<1>11. CASE Open \/ Reload \/ CrashReload \/ UpdateReload \/ UpdateStopped
  BY <1>2, <1>11, Boots DEF Boot
<1> QED BY <1>4, <1>5, <1>6, <1>7, <1>8, <1>9, <1>10, <1>11 DEF Next

\* An older compression never commits over a newer flush (SaveGame.ts:57-59).
THEOREM AutosaveNeverGoesBack == Spec => NeverBackwards
<1>1. IInv /\ [Next]_vars => [autoAt' >= autoAt]_vars
  BY StepBackwards
<1> QED BY <1>1, Invariance, PTL DEF Spec, NeverBackwards

\* What each step leaves of the autosave, the legacy save and the stash: the saves
\* of the tower in play stay or are replaced by one this build reads, and a newer
\* build's save kept aside stays there.
LEMMA StepStores ==
    ASSUME IInv, Next
    PROVE  /\ \/ store'["auto"] = store["auto"] /\ store'["legacy"] = store["legacy"]
              \/ Readable(store'["auto"], build)
           /\ build \in 1..2 /\ build' \in build..2
           /\ IsNewer(store["stash"]) => IsNewer(store'["stash"])
<1> DEFINE Same == /\ store'["auto"] = store["auto"] /\ store'["legacy"] = store["legacy"]
                   /\ store'["stash"] = store["stash"]
           Kept == /\ \/ store'["auto"] = store["auto"] /\ store'["legacy"] = store["legacy"]
                      \/ Readable(store'["auto"], build)
                   /\ build \in 1..2 /\ build' \in build..2
                   /\ IsNewer(store["stash"]) => IsNewer(store'["stash"])
<1>1. store \in Stores /\ StoreFits /\ run \in Runs /\ live \in Text /\ build \in 1..2
      /\ Readable(live, build) /\ (run # None => Readable(run.text, build))
  BY StoreFacts DEF IInv, TypeOK, ReadableInHand
<1>2. ASSUME Same, build' = build PROVE Kept
  BY <1>1, <1>2
<1>3. ASSUME SaveNow(live), build' = build PROVE Kept
  <2>1. store'["stash"] = store["stash"]
    BY <1>1, <1>3, SaveNowFacts, KeyFacts
  <2>2. store' = store \/ store'["auto"] = live
    BY <1>1, <1>3, SaveNowFacts
  <2> QED BY <1>1, <1>3, <2>1, <2>2
<1>4. CASE TimerTick \/ Show \/ Play \/ Continue \/ Trap \/ ActivateFails \/ Close
  <2>1. Same /\ build' = build
    BY <1>4 DEF TimerTick, Show, Play, Continue, Trap, ActivateFails, Close, disk, tab
  <2> QED BY <1>2, <2>1
<1>5. CASE QuickSave \/ Hide \/ ContextLost \/ UpdateNow
  <2>1. (SaveNow(live) \/ store' = store) /\ build' = build
    BY <1>5 DEF QuickSave, Hide, ContextLost, UpdateNow, SavesNow, disk, tab
  <2> QED BY <1>2, <1>3, <2>1
<1>6. CASE DrainAutosaves
  <2>1. run # None /\ build' = build
    BY <1>6 DEF DrainAutosaves, tab
  <2>2. store' = store \/ store'["auto"] = run.text
    BY <1>6, DrainFacts
  <2>3. store'["stash"] = store["stash"]
    BY <1>6, DrainFacts, KeyFacts
  <2> QED BY <1>1, <2>1, <2>2, <2>3
<1>7. CASE \E k \in Slot : SaveSlot(k)
  <2>1. PICK k \in Slot : SaveSlot(k)
    BY <1>7
  <2>2. store' = Write(store, k, live).st /\ build' = build
    BY <2>1 DEF SaveSlot, tab
  <2>3. \A m \in Key \ {k} : store'[m] = store[m]
    BY <1>1, <2>2, WriteFacts, KeyFacts DEF StoreFits
  <2> QED BY <1>2, <2>2, <2>3, KeyFacts
<1>8. CASE \E k \in Slot : DeleteSlot(k)
  <2>1. PICK k \in Slot : DeleteSlot(k)
    BY <1>8
  <2>2. store' = Put(store, k, None) /\ build' = build
    BY <2>1 DEF DeleteSlot, tab
  <2>3. \A m \in Key \ {k} : store'[m] = store[m]
    <3>1. store \in Stores /\ k \in Key /\ None \in Text \cup {None}
      BY <1>1, KeyFacts DEF StoreFits
    <3> QED BY <2>2, <3>1, UsedPut
  <2> QED BY <1>2, <2>2, <2>3, KeyFacts
<1>9. CASE \E k \in Slot \cup {"auto"} : LoadFromSlot(k)
  BY <1>2, <1>9 DEF LoadFromSlot, Follow, disk, tab
<1>10. CASE Load \/ NewGame \/ ImportGame
  BY <1>2, <1>10 DEF Load, NewGame, ImportGame, TowerSwapped, Follow, tab
<1>11. CASE ImportLegacy
  <2>1. build' = build
    BY <1>11 DEF ImportLegacy, Follow, tab
  <2>2. /\ store'["stash"] = store["stash"]
        /\ \/ store'["auto"] = store["auto"] /\ store'["legacy"] = store["legacy"]
           \/ store'["auto"] = live
    BY <1>11, ImportLegacyFacts
  <2> QED BY <1>1, <2>1, <2>2
<1>12. CASE Open \/ Reload \/ CrashReload \/ UpdateReload \/ UpdateStopped
  <2>1. PICK b \in build..2, resumes \in BOOLEAN : Boot(b, resumes)
    BY <1>12, Boots
  <2>2. /\ \A k \in Key \ {"stash"} : store'[k] = store[k]
        /\ IsNewer(store["stash"]) => IsNewer(store'["stash"])
        /\ build' = b
    BY <2>1, BootStep
  <2> QED BY <1>1, <2>2, KeyFacts
<1> QED BY <1>4, <1>5, <1>6, <1>7, <1>8, <1>9, <1>10, <1>11, <1>12 DEF Next

LEMMA StepSurvives ==
    IInv /\ [Next]_vars => [Stored(store, build) # None => Stored(store', build') # None]_vars
<1> SUFFICES ASSUME IInv, Next, Stored(store, build) # None
             PROVE  Stored(store', build') # None
  BY DEF vars
<1>1. store \in Stores /\ build \in 1..2 /\ build' \in build..2
  BY StepStores, StoreFacts
<1>2. store' \in Stores
  BY NextKeeps, StoreFacts DEF IInv, TypeOK, Stores
<1>3. Stored(store', build) # None
  <2>1. CASE store'["auto"] = store["auto"] /\ store'["legacy"] = store["legacy"]
    BY <2>1, StoredAgree
  <2>2. CASE Readable(store'["auto"], build)
    BY <2>2 DEF Stored, Readable
  <2> QED BY <2>1, <2>2, StepStores
<1> QED BY <1>1, <1>2, <1>3, StoredOnLaterBuild

\* A readable autosave stays readable through every write, one that fails for want
\* of room included (writeSlot): room is made of the legacy save, which fits back.
THEOREM ReadableTowerSurvives == Spec => TowerSurvives
<1>1. IInv /\ [Next]_vars =>
         [Stored(store, build) # None => Stored(store', build') # None]_vars
  BY StepSurvives
<1> QED BY <1>1, Invariance, PTL DEF Spec, TowerSurvives

\* A newer build's save is lost only from a page that could not keep it aside and
\* said so; once kept aside it stays (preserveUnreadable, stashUnreadable).
THEOREM NewerSaveSurvives == Spec => NewerSurvives
<1>1. IInv /\ [Next]_vars =>
         [build' = 1 /\ HasNewer(store) /\ ~HasNewer(store')
             => ~keptNewer /\ ~IsNewer(store["stash"])]_vars
  <2> SUFFICES ASSUME IInv, Next, ~HasNewer(store')
               PROVE  ~keptNewer /\ ~IsNewer(store["stash"])
    BY DEF vars
  <2>1. ~IsNewer(store'["stash"])
    BY DEF HasNewer
  <2>2. ~IsNewer(store["stash"])
    BY <2>1, StepStores
  <2> QED BY <2>2 DEF IInv, KeptIsStashed
<1> QED BY <1>1, Invariance, PTL DEF Spec, NewerSurvives

LEMMA StepReloads ==
    IInv /\ [Next]_vars => [Reloads /\ Settled /\ via # "slot" => live'.tower = live.tower]_vars
<1> SUFFICES ASSUME IInv, Next, Reloads, Settled, via # "slot"
             PROVE  live'.tower = live.tower
  BY DEF vars
<1>1. page = "stopped" /\ page' = "splash" /\ build' = build /\ run = None /\ ~failed
  BY DEF Reloads, Settled
<1>2. Open \/ Reload \/ CrashReload \/ UpdateReload \/ UpdateStopped
  BY <1>1 DEF Next, TimerTick, DrainAutosaves, QuickSave, SavesNow, Stop, Hide, Show, Live,
     SaveSlot, DeleteSlot, LoadFromSlot, Play, Continue, Load, NewGame, ImportGame,
     ImportLegacy, Close, Trap, ContextLost, UpdateNow, ActivateFails, disk
<1>3. PICK b \in build..2, resumes \in BOOLEAN : Boot(b, resumes)
  BY <1>2, Boots
<1>4. live' = BootTower(store, build)
  BY <1>1, <1>3, BootStep
<1> QED BY <1>1, <1>4 DEF IInv, WillReload, Idle

\* The reload after a crash brings back the tower that crashed, once its autosave
\* has run and been written, however it came but from a slot (bootstrap.ts,
\* engineCrash/): no save of the session leaves another tower under the key.
THEOREM CrashReloadKeepsTower == Spec => ReloadKeepsTower
<1>1. IInv /\ [Next]_vars =>
         [Reloads /\ Settled /\ via # "slot" => live'.tower = live.tower]_vars
  BY StepReloads
<1> QED BY <1>1, Invariance, PTL DEF Spec, ReloadKeepsTower
==============================================================================
