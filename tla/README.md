# Verticopolis in TLA+

Verticopolis is a tower-building game. The game's rules run in a Rust engine
(`engine-rs/src`, compiled to WebAssembly); a TypeScript page (`src/`) hosts it,
draws it, and keeps the player's towers in the browser's storage. This directory
holds TLA+ models of the parts where the order of events decides whether the
player loses work or gains something for nothing, TLC configurations that check
them on small instances, and proofs checked by TLAPS.

Paths below are relative to the repository (`src/` there is the web source,
`engine-rs/src/` the engine).

## 1. Inventory

| Component | State it keeps | Operations | Hard behaviour |
|---|---|---|---|
| Undo and redo (`undo.rs`, `undo_journal.rs`, `sim_undo*.rs`, `wasm_port_undo.rs`, `tower/undoing.rs`) | the open journal, two stacks of steps | capture, commit, notes made by every edit, check and apply a step, undo, redo, forget on adoption | steps hold only what a gesture changed and meet a tower that time and other edits moved on |
| Edit commands (`build.rs`, `charges.rs`, `tower/placement.rs`, `tower/transports.rs`, `rent.rs`) | `Tower::units`, `Tower::transports`, `next_id`, money | build, sell, add or remove a car, price, name, drag, dig | refunds, automatic floors, support, caps |
| Simulation loop and clock (`sim_loop.rs`, `sim.rs`, `fixed_step.rs`, `clock.rs`) | minutes, hours run, speed | advance, hourly and daily passes | runs while a gesture is open |
| Elevator dispatch (`dispatch.rs`, `schedule.rs`) | car positions, directions, dwell, claims, waiting estimates | move cars, claim a stop, stand a car down | starvation, two cars for one call, a schedule that turns mid-ride |
| Crowd (`crowd/*`) | people, their plans and queues, seats taken per car; `customers_in`, `hotel_customers_in`, `out_for_meal` of units | route, board, ride, leave, go out and come back | lifts that disappear under a plan; counts settled long after they were raised, by ids that may have been sold and put back |
| Tenancy (`churn.rs`, `churn/move_in.rs`, `satisfaction.rs`, `housekeeping.rs`, `economy/traffic.rs`, `services.rs`) | a unit's state, occupants, satisfaction, dirty days; rooms with a maid on the way; the exterminator's day and list | move in, check out, clean, breed roaches, treat | a maid or an exterminator who arrives at a room that is no longer what it was; interplay with sales and undo |
| Events (`events.rs`) | the fires in hand, the pending choice, VIP visit, treasure | start, spread, burn out, answer, expire | a list of fires apart from the rooms' states; a decision made in the middle of a pass |
| Economy (`economy.rs`, `ledger.rs`) | money, daily books | rent, upkeep, sales | sums |
| Star rating (`star.rs`, `scenario.rs`) | rating, milestones | promote | thresholds |
| Engine saves (`sim_save.rs`, `load.rs`, `save_delta.rs`, `export_stream.rs`, `load_stream.rs`) | the delta mirror, the stream in hand | full save, delta, chunked export and load | a mirror that no longer matches |
| SimTower files (`tdt/*`) | the staged tower | read, stage, adopt, write | formats |
| Memo and panels (`diagnostics/memo.rs`, `panels/*`, `view/*`) | derived values and their keys | read | stale memo |
| Page session and saves (`storage/SaveGame.ts`, `storage/unreadableStash.ts`, `game/saveLoad.ts`, `game/autosaveSchedule.ts`, `game/appModals.ts`, `game/legacyImportAdopt.ts`, `game/bootTower.ts`, `game/updateFlow.ts`) | the localStorage keys, the compression in flight, the queued flag, the screen up | timer save, quick save, save on hide, slots, load, import, found, boot | asynchronous compression against synchronous flushes; full storage; a newer build's save |
| Engine crash handling (`bootstrap.ts`, `engineCrash/crashReload.ts`, `game/engineFault.ts`) | the trap latch, the tab's crash count, the reload timer | trap, count, reload or stop | a crash between a tower's arrival and its save |
| Engine boot, relay, telemetry (`wasmhost/*`, `wasm_relay.rs`) | boot stage | load assets, report | not part of the game's state |
| TypeScript engine (`src/engine`) | the rules again | the parity reference | not shipped |
| Rendering, audio, widgets | presentation | draw, play | no state the game's correctness rests on |

How they interact. Edits reach the engine as commands; each notes in the open
journal, just before it changes the tower, what the item was. `undoCapture` opens
a journal when a drag begins and `undoCommit` closes it into a step. The frame
loop advances the simulation between any two of these, with the journal lifted
off the tower. Undo and redo arrive as one port call that closes what is open,
checks a step against the tower of that moment, and applies it or refuses it.
The page asks the engine for its save text on a timer, on demand, when the tab is
hidden and before every reload it starts; every one of these writes the same
autosave key, some at once and one after an asynchronous compression. Loads,
imports and new towers swap the engine's tower under all of that, and a trap
stops the engine for good and has the page reload from the autosave.

What makes each right:

* undo: a step gives back exactly what the gesture found, or is refused; no order
  of steps and time lets a used build be returned at its full price; nothing
  overlaps or hangs; the trail ahead is not lost by accident;
* edits: the same standing rules, and caps;
* saves: an older tower never lands over a newer one; what was readable stays
  readable; a save of a newer build is not destroyed by an older one; a reload
  brings back the tower in play; a save asked for is written;
* dispatch: riders reach their floors and callers are fetched, whatever the schedule
  stands down and whoever has claimed a call; nobody boards a car stood down;
* the crowd's counts: a seat or a place at a table is given back once, by whom it was
  taken, and none is owed by nobody;
* rooms: a fire is always in hand; a shell stays a shell; roaches come only of neglect
  and go only for money.

## 2. Modules

| Module | Models | Notes |
|---|---|---|
| `EditHistory` | nothing in the code: what a history promises | whole snapshots, the abstract specification |
| `UndoList` | the order of the unit list under the journal's index arithmetic, taking units out and putting them back | refines `EditHistory` |
| `UndoTower` | journals, steps, checks, application, both stacks, all edits, and an advance of time | the core module |
| `TowerHistory` | `UndoTower` with the snapshots a plain history would keep | refines `EditHistory` when time stands still |
| `UndoTowerProofs` | theorems about `UndoTower`: types, standing towers, the stacks, a step and its opposite, caps, sold condos; and about `TowerHistory`: it implements `EditHistory` | TLAPS |
| `UndoMoneyProofs` | theorem about `UndoTower`: what was used stays paid for | TLAPS |
| `UndoListProofs` | theorems about `UndoList`: it implements `EditHistory` | TLAPS |
| `SaveSession` | localStorage, the page that writes it, traps, reloads, updates | safety and one liveness property |
| `SaveSessionProofs` | theorems about `SaveSession` | TLAPS |
| `ElevatorShaft` | one shaft: dispatch and the people who board, ride and leave, chunk by chunk, with the hour and the player's edits between | safety and liveness |
| `ElevatorShaftProofs` | theorems about `ElevatorShaft` | TLAPS |
| `Outings` | people who leave a unit for another and come back, and the counts both keep of them | |
| `OutingsProofs` | theorems about `Outings` | TLAPS |
| `RoomTroubles` | fires, bombs, choices, dirt, roaches, maids, the exterminator: all that moves a room's state | |
| `RoomTroublesProofs` | theorems about `RoomTroubles` | TLAPS |
| `Induction` | induction over numbers, for the functions the models recurse with, and sums | lemmas, TLAPS |
| `MCUndoTower`, `MCTowerHistory`, `MCSaveSession`, `MCElevatorShaft`, `MCOutings`, `MCRoomTroubles` | values of constants for TLC | |

Definitions marked "Slip" are plausible mistakes in the code the next definition
translates. No specification uses them. They are there so that a reader can put
one in the place of the definition it stands before, and see which property it
breaks.

### UndoTower and the code

A place (`Site`) stands for a span of tiles: `Kind` says what it holds and `Rests`
which floor tiles must hold it. `tower` maps an id to its unit or shaft, both
records of one shape. `journal.touched[i]` is the note of item i (`Before`,
`TouchedUnit`, `TouchedShaft`). A step's images are `UnitChange` and
`TransportChange`. `Capture`, `Commit`, `Undo`, `Redo` and `Adopt` are the port
calls; `Build`, `Sell`, `AddCar`, `RemoveCar`, `Reprice`, `Rename` the commands,
each with its notes, its charge or refund, and, for a build, the floor it lays
under itself. `Advance` is one advance of the simulation, restricted to what a
step is checked against: a room's use (`Lived`), a shaft's rides, the hour, and
the balance; only one item moves in it, so several moving is a run of them.
`ledger` and `outside` are history: where each id was built, how much of it was
used, and what time and treasure put into the balance. No action reads them.

Undo's checks come in the code's order of meaning rather than of text: `Expected`
(stale), the ground checks, caps, the price of a sold condo, used builds, then
money. Refusals that are lasting drop the step, and on the redo side the rest of
the trail; the others keep it.

Abstractions: tiles are places, so spans and a shaft's floors are not modelled (a
car stands for what a shaft can gain or lose); support is that of the whole item;
the lobby's, sky lobby's and basement's hanging rules, the wedding hall's VIP day,
bridging, film and rent policy facts are left out; fire and treasure appear as what
they do to an item and the balance; people on their way back to a room are not
counted among its use; what `sell_at` and the page's picking forbid (a tile under
something) is the guard of `Sell`; `UNDO_CAP` is 50 in the code and 2 in the runs.

A kind of the model stands for the kinds of the code that share one cap: a room kind with
a cap of its own (`BUILD_CAPS`), or, for `"shaft"`, all elevators together, whose cap is
pooled (`POOLED_CAPS`, the second half of `caps_raised`). What is left out is the pool of
stairs and escalators, and with it a step that raises two pools at once. A tower may begin
over a cap, as an older save may; `held` is then the allowance of
`sim_undo_check.rs:401-411`. Digging ends its searches once `MaxFound` treasures are found
(3 in the code, `build.rs:254-257`; 1 in the runs), counted in `treasuresFound`.

### UndoList and the code

The list is a sequence of ids. `Original` is the binary search by which the journal
turns an index of now into an index of the gesture's start, from the removals noted by
`NoteGone`; `UnitSlot` and `SlotsSettled` follow the lobby brush, whose tiles take the
slots of the floor tiles they replace; `StepOf` closes a journal; `LandingPlaces` and
`InsertUnits` put units back (`tower/undoing.rs`). A brush is one action: `Brushed` lays
its tiles one after another, and `BrushList` and `BrushJournal` are what
`end_lobby_upgrades` makes of the list and the journal. A journal and a step carry the
list they go back to as history.

### SaveSession and the code

`store` is localStorage with its keys and a quota: a write that does not fit changes
nothing, as `setItem` is atomic. A save is the tower it holds, its moment and its
size. `run` is `autosaveRun`: the text being compressed, whether it still owns
`latestAsyncSave`, and `autosaveQueued`. `page` is the screen that decides who may
save (`isSplashUp`, `isCrashed`, `isEngineStopped`). Each button, timer, event and
reload is an action. A trap may also come from the save writer: the save in hand is
still written and the page stops (`SavesNow`).

History variables: `now` counts changes of the live tower, `autoAt` is the moment of
the autosave's text, `asked` that of the page's last autosave request, `failed` that
the last write failed, `via` how the tower arrived.

Abstractions: one tab; storage that is full but not forbidden; a browser that
compresses asynchronously (without it every save is synchronous and there is nothing
to race); a resume flag's age is a choice; losing the graphics behind the title
screen ends in a reload; a manual slot holds a readable save; a confirmed 1994
import reads a second time as it did the first; formats, toasts and telemetry are
left out.

### ElevatorShaft and the code

The simulation step cuts its time into chunks (`sim_loop.rs:81-96`), and `Chunk` is one
of them in the code's order: the calls are collected (`elevator_calls`), the cars move
one after another (`MoveCars`, `MoveCar`, with the stops claimed so far in the
accumulator), the crowd gets the new list of closed cars, and each person advances in
turn (`AdvanceAll`, `Advance`). `TargetOf` with `Nearest` is `next_stop` and the two
tests of the reach. Between chunks the hour may change the number of cars that run
(`Hour`), and the player may skip a stop (`SetStop`), buy or sell cars (`SetCars`), set the
waiting car response and the homes of the schedule (`SetSchedule`), sell the shaft
(`Sell`) or undo the sale (`PutBack`, whose cars stand where a new shaft's do). `beat`
turns with every chunk so that fairness can be stated of chunks alone.

A car's `Home` is the floor its schedule lists for it, or else `IdleFloor`, the lowest stop
with a lobby. The homes set snap to the nearest stop (`SnapHomes`), and snap again when a
stop is skipped; selling cars cuts them (`CutHomes`). `set_schedule` leaves homes that did
not change as they are, so the homes of an older save, with which `Init` may begin, need
not be stops.

Abstractions: whole floors for positions, so the tolerances of the comparisons become
equality; the statistical estimate of waiters calls any set of floors among
`Estimates` in any chunk; one hour's row of the schedule at a time; who reaches the
shaft, and whose patience runs out, is any; a rider who leaves the shaft leaves the
model; a passenger shaft only.

### Outings and the code

`people[p]` is a person with what they will settle in the end: `origin` is
`origin_unit_id`, `meal` is `meal_venue_id`, `venue` and `guest` are `venue_unit_id`
and `counted_hotel_guest`, set only on arrival. `SetOut`, `SalesCall`, `SchoolRun` and
`VisitFromStreet` are the four spawns; `Arrive` is `begin_dwell`, `Depart`
`transition_to_return`, `Settle` the tail of `finish`. `TakeOut` and `PutBack` are any
sale, undo or redo of a unit; `PutBack` gives it back with empty counts (`returning`).
`putBack` is history. Left out: walking and riding, opening hours, and the draw of who
goes where; `visible_occupants` only thins out who may leave.

### RoomTroubles and the code

A room keeps its state and its `dirty_days`. `Midnight` is `maybe_random_event`: the
deadline of a choice, the daily pass over the fires (`AfterFires`, `Burned`,
`SpreadTo`, a function of how far into the list the pass has come), and the new event.
`Morning` is the hour of 8 (`hotel_checkout`, which escalates and spreads roaches
first, then the exterminator), `Afternoon` the late checkout, `CheckIn` the hotel
branch of `attempt_move_ins`. Each of them, and `MaidBack`, ends in a dispatch of
maids as the code's do. `ResolveChoice`, `CallExterminator`, `Sell`, `PutBack` and
`Build` are the player's; `Reload` is a save and its load. `seen` (mornings in a row
that found a room dirty) and `paid` (rooms a booking was paid for) are history.

Abstractions: dice, the star rating and the balance are choices; hours are a night,
a day and an evening. No maid is out when `Morning` comes: the last dispatch is at the
shift's cutoff and a maid gives up or is done within nine hours. Construction,
satisfaction, Santa and the thief are left out; security offices may be sold, as in
Modern mode (a superset of Classic, which refuses).

## 3. Runs

| Run | Configuration | Checks | Shows |
|---|---|---|---|
| `undo_list` | `MCUndoList.cfg` | `TypeOK`, `PlacesAreOriginal`, `RestoresWholeLists`, `BrushKeepsOrder` | every recorded index is the unit's at the gesture's start; undo gives back the whole list; a brush leaves the order that laying tile by tile would |
| `rooms` | `MCRooms.cfg` | `TowerStands`, `CapsKept`, `TrailBounded`, `NoFreeUse`, `Inv`, `StepReverses` | two rooms of a kind and ground that hides one treasure and is searched until it is found, with time, fire, tenants, and edits outside any gesture, so steps meet towers their trail never saw; the inductive invariant of the proofs |
| `shafts` | `MCShafts.cfg` | `NoFreeUse`, `TowerStands`, `StepReverses` | cars bought, sold, ridden in and out of gestures |
| `facts` | `MCFacts.cfg` | `SoldPriceFixed`, `StepReverses` | a condo priced, sold, named, sold off and brought back |
| `tower_history` | `MCTowerHistory.cfg` | `TypeOK`, `RestoresWholeTowers` | with no time between, in a tower begun over a cap, whole towers and balances come back and no step is lost |
| `session` | `MCSession.cfg` | `TypeOK`, `OnlyRealTowers`, `HiddenIsSaved`, `NeverBackwards`, `TowerSurvives`, `NewerSurvives`, `ReloadKeepsTower`, `AskedLands` | everything that writes, reads or ends a page, from 72 starting stores; a save asked for is written |
| `elevator` | `MCElevator.cfg` | `TypeOK`, `SeatsMatchRiders`, `NobodyBoardsStoodDown`, `RidersArrive`, `CallsAnswered` | a shaft in use while the hour turns and the player edits it |
| `outings` | `MCOutings.cfg` | `TypeOK`, `NobodyOwed`, `CountsExact`, `NeverOverfull` | outings while units are sold, put back, closed and reloaded |
| `troubles` | `MCRoomTroubles.cfg` | `TypeOK`, `FiresTracked`, `LastOfKindKept`, `RuinsStay`, `OnlyPaidTreated`, `NeglectCounted` | everything that moves a room's state, in any order the clock allows |
| `slot_crash` | `MCSlotCrash.cfg` | `ReloadKeepsLoadedTower`, violated | section 5 |
| `cab_stops` | `MCCabStops.cfg` | `CabStopsNeverGated`, violated | section 5 |
| `hotel_subset` | `MCHotelSubset.cfg` | `HotelIsSubset`, violated | section 5 |

Deadlock is checked in all of them but the two of `ElevatorShaft`, whose liveness is
about runs that go on by `Beat`; a chunk is possible in every state there.

### Bounds, and why they are enough

* `UndoCap = 2`: a full stack that drops its oldest step, and a step on each side,
  both occur. `TrailBounded` is proved for every cap.
* `MaxId` 2 or 3 (two more than begun in `tower_history`): enough for a build, its automatic floor, a sale and a rebuild at the
  same place under a new id, which is where a step meets the wrong item.
* `MaxHour = 1`: a step from before the hour and one after it; the code only compares.
* `MaxRides = 2`: a ride before and one after a car was bought.
* `KindCap` of 1 for a room: the cap is reached with one room and its rebuild. Condos
  and floors have none. `tower_history` begins with two rooms under a cap of one, so that
  steps need the allowance for a tower over its cap; `CapsKept` is proved for such towers
  and checked in `rooms` for one that begins below.
* `MaxFound = 1` with two buried places: the first dig searches, and the second does or
  does not, by what the first one found.
* `Flows = {0}`: what time earns only matters for whether a step can be paid for, and
  builds and sales already run the balance down and up; `StartMoney` covers
  some builds and not all, so both outcomes occur.
* `UndoList`: three units at the start, two more, two per command: every relative
  position of what leaves and what comes.
* `session`: `MaxNow = 2`, so three moments of the live tower (an older save in flight, a
  newer flush, a swap after it); two sizes and `Quota = 4`, so the same store takes a
  small save and refuses a large one with the legacy, stash and slot keys in play; one
  slot, free or taken; `CrashLoopPages = 2` as in the code.
* `slot_crash` starts from stores without damaged saves; the property does not depend
  on those.
* `elevator`: three floors (a floor to pass by), two cars of one seat each (a full car,
  and a claim by the other), two people, trips that cross and meet, chunks of two floors
  and stops of a chunk and a half (a car may spend a whole chunk standing, or stand for a
  part of it and stop short of a floor). The lobby is in the middle, and a schedule lists
  no homes or the bottom and the middle; skipping the middle stop moves both kinds of home,
  and a shaft out of an older save has a home there although it skips it.
  One edit besides the undo of a sale, which is not counted: a sale and its put-back come
  in one run. The estimate calls from the middle floor or not at all.
* `outings`: a hotel room, an office, a restaurant with one table, a cinema with two seats, two people:
  one to take the last place and one to come too late, one counted before a sale and
  one after.
* `troubles`: a hotel room with a neighbour, one above that neighbour, a security office that is
  the only room of its kind, and a room that can be built where the first was, from two
  towers; two edits, so a room may be sold and put back, or replaced. `InfestDays` is 2
  where the code has 3 (one morning that counts and one that infests) and a bomb
  reaches its own floor where the code has two floors around it (a floor it spares).

### Fairness

The undo modules have none: nothing there must happen. `SaveSession` assumes
`WF_vars(DrainAutosaves)`: a compression the page began ends, as the browser's stream
does while the page lives. No timer, player or reload is assumed fair.
`ElevatorShaft` assumes `WF_beat(Beat)`: the frame loop goes on running chunks
(`sim_loop.rs`); with the game paused nobody expects a lift. Within a chunk nothing is
fair: the estimate may call every time, and no person, hour or edit has to come.

## 4. Properties worth a word

* `NoFreeUse` is the design rule at `undo.rs:27-35`: what was used is not undone at
  its full price. It is stated over the whole history: the balance, plus the least
  that what stands and what was used must have cost, never exceeds the money that
  came in. No single check in the code states it.
* `RestoresWholeTowers` and `RestoresWholeLists` say the diffs are as good as
  snapshots.
* `BrushKeepsOrder` is the promise of `with_lobby_upgrades` (`tower_removal.rs:222-236`):
  lobbies laid in the slots of floor tiles, and moved once, leave the list that removing
  and appending them one by one would.
* `StepReverses`: right after a step, its opposite applies and undoes it, but for
  money.
* `NeverBackwards` and `HiddenIsSaved` are about the token in `SaveGame.ts:57-60`:
  a compression that ends late must not overwrite a flush.
* `TowerSurvives` is about the order of removals in `writeSlot` when storage is full.
* `NewerSurvives` relates boot's choice of the key to stash, the stash's own rule and
  the autosaves that follow.
* `ReloadKeepsTower` needs a queued request to take the text of the newest tower.

* `RidersArrive` and `CallsAnswered` hold only under the conditions they name: a call is
  answered while some running car has a free seat and parked cars answer from
  anywhere. Without the last, a parked car may rightly leave a call alone.
* `SeatsMatchRiders`: the crowd counts seats apart from riders, and a shaft that is put
  back finds the seats of the riders who were in it; every path out of a car must give
  back exactly one.
* `NobodyOwed` and `CountsExact` divide what can be said of counts: exact until a step of
  the history puts a unit back, and never above the people who will settle them after.
  `NobodyOwed` says so of people out and of customers, not of the hotel guests among the
  customers (`hotel_customers_in`): those may stay raised (section 5).
* `LastOfKindKept` looks at a whole day: `spread_fire_to` counts in the middle of its own
  pass, where rooms before it may have burned out already.
* `NeglectCounted` relates `dirty_days` to mornings really seen; every way out of the dirt
  has to forget them.

## 5. Findings

* `appBoot.ts:137-139` says the tower the player just loaded is autosaved at once, so
  that a crash reloads it. Loading a manual slot (`appModals.ts`) follows the swap
  without that autosave; a crash within the next period brings back the tower before.
* A car's own cab stops "are never gated" by the waiting car response
  (`ElevatorDispatch.ts:216`, `dispatch.rs:283-284`). But the code tests only the nearest
  answering stop each way, so a call out of the parked car's reach that lies before a
  rider's floor hides that floor, and the car stays parked with the rider aboard.
* `hotelCustomersIn` is "always at most `customersIn`" (`engine/types.ts:220`). A diner
  counted before a venue was sold and put back settles, by the venue's id, against a
  hotel guest who came after; the guest then settles nothing, and the hotel count
  stays up.

Two more disagreements were met without a run of their own: `is_lasting`
(`sim_undo_check.rs:80-85`) is documented as "can never apply again", but a sale's redo
refused because a tenant moved in would apply again once the tenant has moved out;
and the 1994 import report (`ui/templates/reports.ts:61`) promises that the current tower
"is kept in its autosave", over which the imported tower is then autosaved
(`legacyImportAdopt.ts:33` and `:46`).

## 6. Proofs

`UndoTowerProofs` proves, from `GeometryAssumption`, `NumberAssumption` and
`FactAssumption` only, that is for every lot, price table, cap and bound:

* `Invariant`: `Spec => []Inv`;
* `TypeCorrect`: `Spec => []TypeOK`;
* `TowerAlwaysStands`: `Spec => []TowerStands`;
* `TrailsFit`: `Spec => []TrailBounded`.

`TowerStands` is not inductive. Whether a step can be applied without an overlap is
decided by a check against the tower of that moment, and that check looks only at
items the step does not name. So the step itself must be consistent: the items it
leaves standing must be apart from one another (`StepApart`), which follows from
the gesture having found them apart (`FoundApart`), and places must not change under
an id: an id names one build for good (`SitedIn`, over the tower, the journal and
both stacks), and an id not handed out yet is nowhere. `Inv` is the conjunction of
these with the types, and `rooms` checks it with TLC.

The argument: `InitInv` and `AdoptInv` for the start; `CloseInv` shows that a journal
closes into a good step; `EditInv`, on `NoteOutNotes` and `EditedNotes`, and
`BuildInv` show that edits keep the notes consistent with what the gesture found;
`AdvanceInv` that time moves no item; `AfterStepSites`, `AfterStepApart` and
`AfterStepGrounded` that an applied step leaves a tower that stands, `OppositeGood`
that its opposite is a good step too; `TakenInv` and `RefusedInv` give
`UndoRedoInv`. The theorem's last steps join these with `PTL`.

The second part of `UndoTowerProofs` goes on from there, with `CapAssumption` besides:
floor tiles have no build cap in the code (`build_cap`), which a cap no smaller than
`MaxId` says of ids. Its theorems:

* `StepsTakeBack`: `Spec => StepReverses`. Applying a step and then its opposite is the
  identity on every item it names (`RestoredTwice`, `Reversed`), the opposite's images
  expect just what the step left, and its caps are those of the tower it goes back to.
* `CapsAlwaysKept`: `Spec => []CapsKept`, where the `Limit` of a kind is its cap or, if the
  tower began with more, that. The caps are checked against what a step adds
  *or* against the counts it found when it closed, so `CapInv` adds the towers that are
  not there now: the one the open gesture began with, and the one each step would bring
  back (`StepCapped`), all within the limits (`LimitFacts`). Counts are cardinalities of sets of ids, and
  the proof moves them by inclusions and disjoint unions (`Counting`, `AfterStepCount`).
* `SoldPricesStay`: `Spec => []SoldPriceFixed`. A condo may be sold while it stands, and
  be held as a picture in the journal or in one step of one of the stacks while it is
  gone. `SoldInv` says that these pictures carry the price it was sold at, and that
  there is at most one of them (`Held`, `Once`): two could not both be right once the
  condo is back and sold anew.

The last part of `UndoTowerProofs` proves that `TowerHistory` implements `EditHistory`,
for every lot with no ground to dig, where every edit is made in a gesture and no time passes
(`~Strays`, `Buried = {}`; `TowerHistory` takes no advance), and from `MarkAssumption`,
which says that `NoMark` is no tower:

* `WholeTowersRestored`: `SpecH => RestoresWholeTowers`. A step holds only pictures of
  the items one gesture changed, yet taking it gives back the whole tower and balance
  the gesture found, however many steps were taken back and forward before it.
* `RefusedOnlyForMoney`: `SpecH => []OnlyMoneyRefuses`. There, none of the reasons
  for which a step is refused ever comes up but a balance that cannot pay for it.
  The hypotheses leave out just what the other reasons are for: a stray edit, a dig
  and time each make steps that no longer fit the tower.

`StepReverses` says this of one step and its opposite; a whole trail needs more, since a
step lower on the stack meets a tower that later steps were taken back from. `HistInv`
says what each step means: it `Leads` from one whole tower to another, item by item
(`Gives`), and a stack is a `Trail` when each step leads from the tower the one above it
leads to, down to the snapshots a plain history would keep. Both trails begin at `Base`,
what the open gesture found, so that an edit within a gesture does not touch them; what
the journal noted relates the tower that is there to `Base` (`Noted`). Where no time
passes every item is `New`, so what an edit owns of it is all there is to it (`NewSame`),
and taking an image back gives the item itself and not only its price, name and cars.
The argument: `EditNoted` and `OutNoted` for the notes of an edit, `BuildPlain`,
`SellPlain` and `EditPlain` for the edits; `ClosedTrails` for the gesture that closes
into a step on its trail; `LeadsApplies` for a step on a trail being one the engine's
check lets through, `LeadsMakes` for what it makes and `LeadsBack` for its opposite
leading back; `UndoPlain` and `RedoPlain` put these together.

`UndoMoneyProofs` proves `UseIsPaid`: `Spec => []NoFreeUse`, the rule of `undo.rs:27-35`.
`NoFreeUse` compares the balance with what the builds must have cost by now, and is far
from inductive: a step waiting on a stack may pay out its full price later. `MoneyInv`
therefore puts these payments on the same side of the comparison (`Covered`): each step
holds back what taking it pays out beyond what it changes of the costs (`Bills`), or what
the step that reverses it would (`Gains`), whichever is more, and a step that can never
apply again because what it takes back was used (`Spent`) holds back nothing. The same
holds of the step the open gesture would close into (`Open`). Whether a step is spent is
decided in the code by what it finds standing, while the ledger of `NoFreeUse` counts use;
`Knows`, `HandsKnow` and `NotesKnow` relate the two for each item *in hand* (`Worn`: what
stands, and the pictures of it in the journal or in a step while it is gone): a floor
tile's use shows as an hour passed since the gesture, a shaft's as an hour or a ride, a
room's as its opening.
The argument, action by action: an undo or a redo turns what a step holds back into the
change of the costs and what its opposite holds back (`TurnedItem`, `ReserveTurns`,
`TakenMoney`); an edit pays what it changes of the costs and of its own gesture's step,
item by item (`Pays`: `CarMoney`, `SellMoney`, `FactMoney`, `BuildMoney`, with
`NotedEdit`, `NotedOut` and the images `ShaftFound`, `ShaftAdded`, `UnitFound`,
`UnitAdded`, `FoundGone`); time only makes steps spent (`AgesItem`, `StepAges`,
`AdvanceMoney`); closing a gesture moves its step to the stack (`Closed`). It stands on
`Inv` and on `SoldInv`, which says that there is one picture of what is gone.

`UndoListProofs` proves, from `ListAssumption`, for every starting list, batch, cap and
number of ids, each property its run checks:

* `ListTyped`: `Spec => []TypeOK`: no unit stands twice and no place is noted as gone
  twice, which `note_gone` asserts;
* `PlacesStayOriginal`: `Spec => []PlacesAreOriginal`;
* `ListsRestored`: `Spec => RestoresWholeLists`, that is `UndoList` implements
  `EditHistory`;
* `BrushKeepsTheOrder`: `Spec => BrushKeepsOrder`;

and `NoneStale`: every edit there being made in a gesture, the step an undo or a redo
would take fits the list, so that none is refused as stale.

`PlacesAreOriginal` says only that the units heard of have the places the gesture found.
For the next one that leaves to get the right place, the journal must also have heard of
everything that left: `LInv` (theorem `ListInvariant`) says that the list is the one
found, less the units at the places gone, with what was laid since at its end
(`JournalKnows`), and that each stack is a `Trail`, whose steps lead from list to list
down to the oldest. The search of `original` is right for every list because the places
gone are `Sorted`: `gone[mid + 1] - mid` never falls as `mid` grows (`SortedGap`),
a unit that stays stands as much earlier as places below its own are gone (`PlaceLeft`,
`BelowLeft`), and the search ends at that number (`SearchMade`, `SearchEnds`,
`OriginalIs`). In the middle of a brush the journal knows two lists: the one the brush
found, by which the slots it has not settled are to be read, and the one there will be
when they are (`SlotsKnow`, from `LayFree` and `LayOver` to `BrushEnds`). `LandsThere`
shows that `landing_places` moves no place of a step that fits, `AppliedIs` that the
units then stand where they were, `StepOfLeads` that a gesture closes into a step back
to what it found, and `OppositeLeads` that the opposite leads back. `TakenPlain` and
`EditPlain` put these together.

`OutingsProofs` proves, from `OutingsAssumption` (finitely many people, the kinds of units,
capacities above zero) and `NoneAssumption` (no person is `None`), for any people, units
and capacities:

* `CountsInvariant`: `Spec => []IInv`;
* `OutingsTypeCorrect`: `Spec => []TypeOK`, above all that no count goes below zero;
* `NobodyEverOwed`: `Spec => []NobodyOwed`;
* `CountsStayExact`: `Spec => []CountsExact`;
* `PlacesNeverOverfull`: `Spec => []NeverOverfull`.

`CountsExact` compares a number with a set of people, and says nothing of units that
are gone or were put back. Two facts make it inductive, and `IInv` adds them: a unit
that is gone counts nobody (`GoneEmpty`), so that it comes back with nothing to
settle, and a person on the way out is at no venue yet (`OutFresh`), so that arriving
counts them once. The argument goes action by action over how the three sets of
holders change: `RaiseKeeps` and `ArriveKeeps` add one person to one set each
(`OneJoins`), `SettleKeeps` takes one out of all three (`OneLeaves`), whether the home
is there or was forgotten, and `SetOffKeeps`, `UnitsKeep` and `ReloadKeeps` change
none of them or empty all. The type invariant is inductive alone (`TypeInductive`,
with `SettleTyped` for the guards of `finish`).

`SaveSessionProofs`, from `SizeAssumption`, `NameAssumption` and `StoreAssumption`, for any
towers, slots, sizes, quota and number of moves, proves every property the run checks but
the liveness one: `Typed`, `RealTowersKept`, `HiddenTabKept`, `AutosaveNeverGoesBack`,
`ReadableTowerSurvives`, `NewerSaveSurvives` and `CrashReloadKeepsTower`. Its `IInv` adds
to these what the page has *in hand*: the live tower and the save being compressed are
real and readable (`RealInHand`, `ReadableInHand`), an owned compression is no older than
the autosave (`MomentsInOrder`) and of the tower the tab was hidden with
(`HiddenInHand`), storage stays within its quota, so that a save taken out to make room
fits back (`StoreFits`), and the next boot's tower is the one in play, or the one the
compression in hand will leave there (`WillReload`).

`RoomTroublesProofs`, from `RoomAssumption`, for any rooms, places, days of neglect, reach of
a bomb and number of edits, proves every property its run checks: `Typed`,
`EveryFireTracked`, `LastRoomSpared`, `RuinsAreKept`, `TreatmentIsPaid` and
`NeglectIsCounted`. The daily pass over the fires is a function of how many had their
turn; that it exists and what it keeps come from `Induction`. `IInv` adds that the fires
in hand are listed once each (`Tracked`), that a booking is for the rooms paid for, and
what `dirty_days` means in the rooms that stand and in the sales that undo would put
back (`DaysCounted`); without the latter a sale taken back could bring a room back with
days nobody counted.

`ElevatorShaftProofs`, from `ShaftAssumption`, for any height, cars, seats, lobbies, chunks,
people and trips and for homes on any floors, proves the safety properties of its run:
`Typed`, `SeatsAlwaysMatch` and `ClosedCarsLeftAlone`. That a car stays on the shaft's
floors needs a home to be one: `SnapFloor` shows that there is a nearest stop, since some
distance is the least (`Least`), and `HomeFloor` puts the cases together. `IInv` adds that nobody is in the crowd twice and that exactly
those who ride have a car. Halfway through `AdvanceAll` the seats are the riders among
those who had their turn and those who did not, which a person who took two turns would
break.

`Induction` holds what these proofs need of numbers: induction, and the existence of a
function defined by recursion, stated with sets and functions where the library's
theorems take operators (which the provers cannot instantiate). It also holds the facts
about sums that the costs need: that a function adding up exists (`SumExists`), and how
sums compare, add up and change with a term.

Every safety and action property of every passing run is proved, and both refinements.
Only model-checked is liveness, which is out of the prover's reach: `AskedLands`,
`RidersArrive` and `CallsAnswered`.

## 7. Plan

1. Done: every module of section 2.
2. Done: a theorem for every safety property, action property and refinement a passing
   run checks.
3. Models that could follow: the delta mirror (`save_delta.rs`) against edits and time,
   refining "the host's copy is the tower's save"; the VIP's stay and the wedding hall's
   day, which would join `UndoTower`'s steps; the memo's keys.

## 8. Not modelled

File formats and their limits (`tdt/*`, `fflate/*`, parsing in `load/*`), sums in
floating point (economy, satisfaction, star rating), route search and the random draws
of the crowd, the VIP's stay, the delta mirror (section 7), rendering and
sound, telemetry, boot of assets, and the TypeScript engine, which is not shipped.
The repository tests those by example and by parity between its two engines; their
state is either derived or not touched by more than one actor.
