----------------------------- MODULE SaveSession -----------------------------
(***************************************************************************)
(* What the browser keeps of the player's tower (storage/SaveGame.ts,      *)
(* storage/unreadableStash.ts), and the page that writes it: the autosave  *)
(* timer and its asynchronous compression, quick saves and slots, tab      *)
(* hiding, loads, imports and new towers (game/saveLoad.ts,                *)
(* game/autosaveSchedule.ts, game/appModals.ts, game/legacyImportAdopt.ts),*)
(* traps of the engine and their reload (bootstrap.ts, engineCrash/),      *)
(* lost graphics and the update to a newer build (game/updateFlow.ts).     *)
(*                                                                         *)
(* A save is the tower it holds, the moment of that tower and its size:    *)
(* localStorage is a map of keys under one quota, and a write that does    *)
(* not fit changes nothing.  Only one tab is open.                         *)
(***************************************************************************)
EXTENDS Integers, FiniteSets

CONSTANTS
    Tower,           \* the towers a player may have
    Slot,            \* the manual slots, SLOT_KEY(n)
    Size,            \* sizes a save may have
    Quota,           \* what localStorage holds
    CrashLoopPages,  \* CRASH_LOOP_PAGES
    StartStores,     \* what storage may hold when the game is first opened
    MaxNow,          \* bound: changes of the live tower
    None             \* nothing stored, no autosave running

Key   == {"auto", "legacy", "stash"} \cup Slot
Pages == {"closed", "splash", "play", "crashed", "stopped"}

(* What a key may hold.  A damaged save no build reads; a newer one only   *)
(* build 2 reads.  The backdrop is the tower behind a first title screen,  *)
(* halfWritten what an engine that trapped would write.                    *)
Text == [tower : Tower \cup {"backdrop", "halfWritten", "damaged", "newer"},
         moment : 0..MaxNow, size : Size]

(* An autosave being compressed (autosaveRun).                             *)
Run == [text : Text, at : 1..MaxNow, owns : BOOLEAN, queued : BOOLEAN]

ASSUME SizeAssumption ==
    /\ Size \subseteq Nat /\ Size # {} /\ Quota \in Nat
    /\ CrashLoopPages \in Nat \ {0} /\ MaxNow \in Nat \ {0}
    /\ None \notin Text \cup Run /\ Tower # {}

(* Keys are distinct strings, and no tower's name is one of the marks.     *)
ASSUME NameAssumption ==
    /\ IsFiniteSet(Slot) /\ Slot \cap {"auto", "legacy", "stash"} = {}
    /\ Tower \cap {"backdrop", "halfWritten", "damaged", "newer"} = {}

VARIABLES
    store,       \* localStorage
    build,       \* the build the page runs: 1, or 2 once updated
    page,        \* closed, title screen, in play, crash screen, engine stopped
    hidden,      \* document.visibilityState
    live,        \* the engine's tower
    via,         \* how the tower reached the engine
    run,         \* autosaveRun: the save being compressed, whether it still
                 \* owns latestAsyncSave, and autosaveQueued
    activating,  \* an update was accepted and its reload is due
    crashes,     \* the count under RUST_CRASHES_KEY, for this tab and build
    reloading,   \* the crash reload's timer is set
    keptNewer,   \* saveWasNewer and unreadableKept
    now,         \* history: changes of the live tower so far
    autoAt,      \* history: the moment the autosave key's text was captured
    asked,       \* history: the moment of this page's last autosave request
    failed       \* history: the last write of the autosave key failed

disk == <<store, run, autoAt, failed>>
tab  == <<build, crashes, keptNewer>>
vars == <<store, build, page, hidden, live, via, run, activating, crashes,
          reloading, keptNewer, now, autoAt, asked, failed>>

-----------------------------------------------------------------------------
(* localStorage.                                                           *)

(* What is used: the bytes of every key, each byte by its key and number.  *)
Bytes(st, k)      == IF st[k] = None THEN {} ELSE 1..st[k].size
Cells(st, keys)   == UNION {{k} \X Bytes(st, k) : k \in keys}
Used(st, keys)    == Cardinality(Cells(st, keys))
Fits(st, k, text) == Used(st, Key \ {k}) + text.size <= Quota
Put(st, k, text)  == [st EXCEPT ![k] = text]

(* The first build found storage as the browser left it: within its quota, *)
(* and holding towers a player had.                                        *)
ASSUME StoreAssumption == \A st \in StartStores :
    /\ st \in [Key -> Text \cup {None}] /\ Used(st, Key) <= Quota
    /\ \A k \in Key : st[k] # None => st[k].tower \notin {"backdrop", "halfWritten"}

(* A setItem that may not fit.                                             *)
Write(st, k, text) ==
    IF Fits(st, k, text) THEN [ok |-> TRUE, st |-> Put(st, k, text)]
                         ELSE [ok |-> FALSE, st |-> st]

(* Slip: the legacy save is not put back when the write fails.             *)
WriteAutoDropsLegacy(st, text) ==
    IF st["legacy"] = None THEN Write(st, "auto", text)
    ELSE Write(Put(st, "legacy", None), "auto", text)

(* writeSlot for the autosave key: the legacy key makes room, before the   *)
(* write or for its retry, and comes back if the write fails all the same. *)
WriteAuto(st, text) ==
    IF st["legacy"] = None THEN Write(st, "auto", text)
    ELSE LET tried == Write(Put(st, "legacy", None), "auto", text)
         IN  IF tried.ok THEN tried
             ELSE [ok |-> FALSE, st |-> Write(tried.st, "legacy", st["legacy"]).st]

Readable(text, b) ==
    text # None /\ text.tower # "damaged" /\ (text.tower = "newer" => b = 2)

(* loadResult: the autosave key, then the legacy one.                      *)
Stored(st, b) ==
    IF Readable(st["auto"], b) THEN st["auto"]
    ELSE IF Readable(st["legacy"], b) THEN st["legacy"] ELSE None

(* The keys refused before one loaded, and the one worth keeping aside:    *)
(* newerKey ?? refusedKey.                                                 *)
Refused(st, b) ==
    IF Readable(st["auto"], b) THEN {}
    ELSE {k \in {"auto", "legacy"} : st[k] # None /\ ~Readable(st[k], b)}
IsNewer(text) == text # None /\ text.tower = "newer"
StashKey(st, b) ==
    LET newer == {k \in Refused(st, b) : IsNewer(st[k])}
        from  == IF newer # {} THEN newer ELSE Refused(st, b)
    IN  IF "auto" \in from THEN "auto" ELSE "legacy"

(* Slip: whatever was refused last is kept aside.                          *)
StashAny(st, raw) == Write(st, "stash", raw)

(* stashUnreadable.                                                        *)
Stash(st, raw) ==
    IF st["stash"] = raw THEN [ok |-> TRUE, st |-> st]
    ELSE IF st["stash"] # None /\ ~IsNewer(raw) THEN [ok |-> FALSE, st |-> st]
    ELSE Write(st, "stash", raw)

-----------------------------------------------------------------------------
(* Saving.                                                                 *)

(* Slip: the text is asked of an engine that trapped.                      *)
TextsWhateverHappened ==
    {IF page = "stopped" THEN [live EXCEPT !.tower = "halfWritten"] ELSE live}

(* saveText: none once the engine trapped.                                 *)
Texts == IF page = "stopped" THEN {} ELSE {live}

(* Slip: an older compression still owns the autosave.                     *)
RetiredNever(r) == r

(* latestAsyncSave = null.                                                 *)
Retired(r) == IF r = None THEN None ELSE [r EXCEPT !.owns = FALSE]

(* SaveGame.save: the autosave written at once.                            *)
SaveNow(text) ==
    LET written == WriteAuto(store, text)
    IN  /\ store' = written.st /\ failed' = ~written.ok
        /\ autoAt' = IF written.ok THEN now ELSE autoAt
        /\ run' = Retired(run)

Compressing(text, at) == [text |-> text, at |-> at, owns |-> TRUE, queued |-> FALSE]

(* Slip: a request while one runs is dropped.                              *)
AutosaveUnlessRunning(r, text, at) ==
    IF r = None THEN Compressing(text, at) ELSE r

(* SaveLoad.autosave.                                                      *)
Autosave(r, text, at) ==
    IF r = None THEN Compressing(text, at) ELSE [r EXCEPT !.queued = TRUE]

(* Slip: the title screen's tower is saved too.                            *)
LiveOnAnyPage == page # "stopped"

(* isSplashUp and isEngineStopped.                                         *)
Live == page \in {"play", "crashed"}

TimerTick ==
    /\ Live
    /\ run' = Autosave(run, live, now) /\ asked' = now
    /\ UNCHANGED <<store, autoAt, failed, page, hidden, live, via, activating,
                   reloading, now, tab>>

(* drainAutosaves goes on when the compression ends: it writes if no later *)
(* save took the key, and starts over if asked to meanwhile; a save it     *)
(* cannot take or write ends the run, and drops the request.               *)
DrainAutosaves ==
    /\ run # None
    /\ LET written == IF run.owns THEN WriteAuto(store, run.text)
                      ELSE [ok |-> TRUE, st |-> store]
           again   == written.ok /\ run.queued
       IN  /\ store' = written.st
           /\ autoAt' = IF run.owns /\ written.ok THEN run.at ELSE autoAt
           /\ \/ /\ again /\ \E text \in Texts : run' = Compressing(text, now)
              \/ (~again \/ Texts = {}) /\ run' = None
           /\ failed' = \/ ~written.ok \/ (again /\ Texts = {})
                        \/ (failed /\ ~run.owns)
    /\ UNCHANGED <<page, hidden, live, via, activating, reloading, now, asked,
                   tab>>

(* A trap counts a crash of this tab on this build and stops the game: the *)
(* page reloads if the count was kept and is not spent.                    *)
Stop ==
    /\ page' = "stopped"
    /\ \E counted \in BOOLEAN :
          LET count == IF counted /\ crashes < CrashLoopPages THEN crashes + 1 ELSE crashes
          IN  /\ crashes' = count
              /\ reloading' = (counted /\ count < CrashLoopPages)

(* A save written at once; the engine's save writer may trap on it, and    *)
(* the save in hand is still written.                                      *)
SavesNow(text) ==
    /\ SaveNow(text)
    /\ \/ UNCHANGED <<page, crashes, reloading>>
       \/ Stop

(* Quick Save, and the update prompt's Later.                              *)
QuickSave ==
    /\ page = "play" /\ ~hidden /\ SavesNow(live)
    /\ UNCHANGED <<hidden, live, via, activating, now, asked, build, keptNewer>>

(* saveOnHide.                                                             *)
Hide ==
    /\ ~hidden /\ page # "closed" /\ hidden' = TRUE
    /\ \/ Live /\ SavesNow(live)
       \/ ~Live /\ UNCHANGED <<disk, page, crashes, reloading>>
    /\ UNCHANGED <<live, via, activating, now, asked, build, keptNewer>>

Show ==
    /\ hidden /\ hidden' = FALSE
    /\ UNCHANGED <<disk, page, live, via, activating, reloading, now, asked, tab>>

(* saveToSlot and deleteSlot.                                              *)
SaveSlot(k) ==
    /\ page = "play" /\ ~hidden
    /\ store' = Write(store, k, live).st
    /\ UNCHANGED <<run, autoAt, failed, page, hidden, live, via, activating,
                   reloading, now, asked, tab>>

DeleteSlot(k) ==
    /\ page = "play" /\ ~hidden /\ store[k] # None
    /\ store' = Put(store, k, None)
    /\ UNCHANGED <<run, autoAt, failed, page, hidden, live, via, activating,
                   reloading, now, asked, tab>>

-----------------------------------------------------------------------------
(* Towers that come and change.                                            *)

(* The engine holds another tower, or another moment of it, and the app    *)
(* follows: the title screen comes down.                                   *)
Follow(text, how) ==
    /\ now < MaxNow /\ now' = now + 1
    /\ live' = text /\ via' = how /\ page' = "play"
    /\ UNCHANGED <<hidden, activating, reloading, tab>>

Play ==
    /\ page = "play" /\ ~hidden
    /\ now < MaxNow /\ now' = now + 1
    /\ \E size \in Size : live' = [live EXCEPT !.moment = now', !.size = size]
    /\ UNCHANGED <<disk, page, hidden, via, activating, reloading, asked, tab>>

(* The title screen's Continue.                                            *)
Continue ==
    /\ page = "splash" /\ ~hidden /\ live.tower # "backdrop"
    /\ page' = "play"
    /\ UNCHANGED <<disk, hidden, live, via, activating, reloading, now, asked, tab>>

(* loadFromSlot and loadFromSplash, of a slot or of the autosave: the app  *)
(* only follows the swap.                                                  *)
LoadFromSlot(k) ==
    /\ page \in {"splash", "play"} /\ ~hidden
    /\ LET text == IF k = "auto" THEN Stored(store, build) ELSE store[k]
       IN  Readable(text, build) /\ Follow(text, "slot")
    /\ UNCHANGED <<disk, asked>>

(* towerSwapped: the app follows, and the tower is autosaved at once.      *)
TowerSwapped(text, how) ==
    /\ Follow(text, how)
    /\ run' = Autosave(run, text, now') /\ asked' = now'
    /\ UNCHANGED <<store, autoAt, failed>>

(* SaveLoad.load.                                                          *)
Load ==
    /\ page = "play" /\ ~hidden
    /\ Readable(Stored(store, build), build)
    /\ TowerSwapped(Stored(store, build), "load")

Arrivals ==
    {text \in [tower : Tower \ {live.tower}, moment : {now + 1}, size : Size] : now < MaxNow}

(* newGame and importGame.                                                 *)
NewGame ==
    /\ page \in {"splash", "play"} /\ ~hidden
    /\ \E text \in Arrivals : TowerSwapped(text, "found")
ImportGame ==
    /\ page \in {"splash", "play"} /\ ~hidden
    /\ \E text \in Arrivals : TowerSwapped(text, "import")

(* The confirmed import of a 1994 save: the tower in play is flushed to    *)
(* the autosave, the import swaps in and is autosaved, and a copy goes to  *)
(* the first free slot (adoptConfirmedLegacyImport).                       *)
FreeSlots(st) == {k \in Slot : st[k] = None}
ImportLegacy ==
    /\ page \in {"splash", "play"} /\ ~hidden
    /\ \E text \in Arrivals :
          LET flushes == page = "play"
              flushed == IF flushes THEN WriteAuto(store, live) ELSE [ok |-> TRUE, st |-> store]
              held    == IF flushes THEN Retired(run) ELSE run
          IN  /\ Follow(text, "import")
              /\ run' = Autosave(held, text, now') /\ asked' = now'
              /\ autoAt' = IF flushes /\ flushed.ok THEN now ELSE autoAt
              /\ failed' = IF flushes THEN ~flushed.ok ELSE failed
              /\ IF FreeSlots(flushed.st) = {} THEN store' = flushed.st
                 ELSE \E k \in FreeSlots(flushed.st) : store' = Write(flushed.st, k, text).st

-----------------------------------------------------------------------------
(* Pages that end and begin.                                               *)

Backdrop == [tower |-> "backdrop", moment |-> 0, size |-> CHOOSE s \in Size : TRUE]

(* Slip: whatever is stored, loaded or not.                                *)
BootTowerUnchecked(st, b) == Stored(st, b)

(* bootTower: the fresh tower stays when no stored one loads.              *)
BootTower(st, b) == IF Stored(st, b) # None THEN Stored(st, b) ELSE Backdrop

(* Boot: the stored tower loads, or a backdrop stands in for it; what      *)
(* could not be read is kept aside; a reload the app began resumes in play.*)
Boot(b, resumes) ==
    LET loaded  == Stored(store, b) # None
        refused == Refused(store, b) # {}
        raw     == store[StashKey(store, b)]
        stashed == IF refused THEN Stash(store, raw) ELSE [ok |-> FALSE, st |-> store]
    IN  /\ build' = b /\ store' = stashed.st
        /\ keptNewer' = (stashed.ok /\ IsNewer(raw))
        /\ live' = BootTower(store, b)
        /\ page' = IF resumes /\ loaded THEN "play" ELSE "splash"
        /\ hidden' = FALSE /\ via' = "boot" /\ run' = None /\ activating' = FALSE
        /\ reloading' = FALSE /\ asked' = 0 /\ failed' = FALSE
        /\ UNCHANGED <<now, autoAt>>

Open ==
    /\ page = "closed"
    /\ \E b \in build..2 : Boot(b, FALSE)
    /\ crashes' = 0

(* The tab is closed, or killed.                                           *)
Close ==
    /\ page # "closed" /\ page' = "closed"
    /\ hidden' = FALSE /\ run' = None /\ activating' = FALSE /\ reloading' = FALSE
    /\ asked' = 0 /\ failed' = FALSE /\ keptNewer' = FALSE
    /\ UNCHANGED <<store, build, live, via, crashes, now, autoAt>>

(* The player reloads, from the crash screen by its button.                *)
Reload ==
    /\ page # "closed" /\ ~reloading
    /\ \E resumes \in BOOLEAN : (resumes => page \in {"crashed", "splash"}) /\ Boot(build, resumes)
    /\ UNCHANGED crashes

Trap ==
    /\ page \in {"splash", "play"} /\ Stop
    /\ UNCHANGED <<disk, build, keptNewer, hidden, live, via, activating, now, asked>>

CrashReload ==
    /\ page = "stopped" /\ reloading /\ Boot(build, FALSE)
    /\ UNCHANGED crashes

(* recoverFromContextLoss: nothing is flushed behind the title screen; a   *)
(* tower flushed may be recovered in place.                                *)
ContextLost ==
    /\ page = "play" /\ SaveNow(live)
    /\ \/ ~failed' /\ page' = "play"
       \/ page' = "crashed"
    /\ UNCHANGED <<hidden, live, via, activating, reloading, now, asked, tab>>

(* The update prompt's Update now: no reload unless the tower was saved.   *)
UpdateNow ==
    /\ page = "play" /\ ~hidden /\ build = 1 /\ ~activating
    /\ SavesNow(live) /\ activating' = ~failed'
    /\ UNCHANGED <<hidden, live, via, now, asked, build, keptNewer>>

UpdateReload ==
    /\ activating
    /\ \E resumes \in BOOLEAN : Boot(2, resumes)
    /\ crashes' = 0

ActivateFails ==
    /\ activating /\ activating' = FALSE
    /\ UNCHANGED <<disk, page, hidden, live, via, reloading, now, asked, tab>>

(* A game stopped on its engine takes an update at once.                   *)
UpdateStopped ==
    /\ page = "stopped" /\ build = 1 /\ Boot(2, FALSE)
    /\ crashes' = 0

Init ==
    /\ store \in StartStores /\ build = 1 /\ page = "closed" /\ hidden = FALSE
    /\ live = Backdrop
    /\ via = "boot" /\ run = None /\ activating = FALSE /\ crashes = 0
    /\ reloading = FALSE /\ keptNewer = FALSE /\ now = 1 /\ autoAt = 0
    /\ asked = 0 /\ failed = FALSE

Next ==
    \/ TimerTick \/ DrainAutosaves \/ QuickSave \/ Hide \/ Show
    \/ \E k \in Slot : SaveSlot(k) \/ DeleteSlot(k)
    \/ \E k \in Slot \cup {"auto"} : LoadFromSlot(k)
    \/ Play \/ Continue \/ Load \/ NewGame \/ ImportGame \/ ImportLegacy
    \/ Open \/ Close \/ Reload \/ Trap \/ CrashReload \/ ContextLost
    \/ UpdateNow \/ UpdateReload \/ ActivateFails \/ UpdateStopped

(* The browser ends every compression it has begun.                        *)
Spec == Init /\ [][Next]_vars /\ WF_vars(DrainAutosaves)
-----------------------------------------------------------------------------
(* Properties.                                                             *)

(* Every variable holds what its declaration lets it hold.                 *)
TypeOK ==
    /\ store \in [Key -> Text \cup {None}]
    /\ build \in 1..2 /\ page \in Pages /\ hidden \in BOOLEAN /\ live \in Text
    /\ via \in {"boot", "slot", "load", "found", "import"}
    /\ run \in {None} \cup Run
    /\ activating \in BOOLEAN /\ crashes \in 0..CrashLoopPages
    /\ reloading \in BOOLEAN /\ keptNewer \in BOOLEAN
    /\ now \in 1..MaxNow /\ autoAt \in 0..MaxNow /\ asked \in 0..MaxNow
    /\ failed \in BOOLEAN

(* Only towers a player has are kept: never the one behind a first title   *)
(* screen, never what an engine that trapped holds (autosaveSchedule.ts,   *)
(* portLifecycle.ts saveText).                                             *)
OnlyRealTowers ==
    \A k \in Key : store[k] # None => store[k].tower \notin {"backdrop", "halfWritten"}

(* An older compression never commits over a newer flush: the autosave's   *)
(* text is never replaced by one captured before it (SaveGame.ts:57-59).   *)
NeverBackwards == [][autoAt' >= autoAt]_vars

(* A tab in the background, once its flush was written, keeps the tower it *)
(* was hidden with, whatever save was in flight (saveOnHide).              *)
HiddenIsSaved == hidden /\ Live /\ ~failed => store["auto"] = live

(* A readable autosave stays readable through every write, one that fails  *)
(* for want of room included (writeSlot).                                  *)
TowerSurvives ==
    [][Stored(store, build) # None => Stored(store', build') # None]_vars

HasNewer(st) == \E k \in {"auto", "legacy", "stash"} : IsNewer(st[k])

(* A save only a newer build reads is lost to the older one only from a    *)
(* page that could not keep it aside and said so, and once kept aside it   *)
(* stays there (loadResult, preserveUnreadable, stashUnreadable).          *)
NewerSurvives ==
    [][build' = 1 /\ HasNewer(store) /\ ~HasNewer(store')
          => ~keptNewer /\ ~IsNewer(store["stash"])]_vars

(* The reload after a crash brings back the tower that crashed, once its   *)
(* autosave has run and been written, if towerSwapped brought it.          *)
Reloads == page = "stopped" /\ reloading /\ page' = "splash" /\ build' = build
Settled == run = None /\ ~failed
ReloadKeepsTower ==
    [][Reloads /\ Settled /\ via # "slot" => live'.tower = live.tower]_vars

(* Every autosave asked for is written, or a later one is, unless a write  *)
(* fails or the page ends (SaveLoad.autosave, drainAutosaves).             *)
AskedLands ==
    \A m \in 1..MaxNow : asked = m ~> (autoAt >= m \/ failed \/ asked = 0)

(* The reload after a crash brings back the tower the player loaded last,  *)
(* by whatever way (appBoot.ts:137-139).                                   *)
ReloadKeepsLoadedTower ==
    [][Reloads /\ Settled => live'.tower = live.tower]_vars
=============================================================================
