# A TLA+ verification project for rott94

rott94 is a port of *Rise of the Triad* (1994): a first person shooter in C, with
a network game for up to eleven players. Nearly all of the program's own logic is
in `src/rott`; the directories `android`, `Windows` and `mac` hold ports and
vendored libraries (SDL, SDL_mixer, codecs).

The project models three parts of the program. The first is the part where several
processes must agree: the network game. Every client runs the whole simulation, and the games stay the
same only because every client simulates the same commands, tic by tic. That is
the job of `rt_net.c`: rings of 256 slots reused every few seconds, packets that
get lost, damaged or late, requests and resends, timeouts, and players who leave
in the middle. The second is a level tic by tic: doors, elevators, push walls, touch
plates and the actors among them, which all change the same tables in the loops of
`UpdateGameObjects`. The third is the zone allocator under the lump cache, where a block
may be thrown out while its owner still points at it.

Contents:

1. The system: components, state, interaction
2. What is hard, and what correct means
3. The modules and the code
4. The runs: what they show, bounds, fairness
5. The proofs
6. What the models leave out
7. What was found
8. The plan

## 1. The system

| component | source | state | operations |
|---|---|---|---|
| Packet server | `rt_net.c` | rings `ClientCmds`, `ServerCmds`, `ClientCommandState`, `LastCommandTime`, `PlayerStatus`, `serverupdatetime` | `ProcessServer`, `AreClientsReady`, `SendFullServerPacket`, `AddPacket`, `FixupPacket`, `ResendPacket`, `RequestPacket`, `ResetClientCommands` |
| Network client | `rt_net.c` | rings `LocalCmds`, `PlayerCmds`, `ServerCommandState`, `LastCommandTime`, `controlupdatetime`, `oldpolltime` | `UpdateClientControls`, `PrepareLocalPacket`, `CheckForPacket`, `AddServerPacket`, `FixupPacket`, `ResendLocalPackets`, `ControlPlayerObj`, `ProcessPlayerCommand` |
| Resend buffers | `rt_net.c`, `rt_com.c` | the buffer being filled | the loops of `ResendLocalPackets` and `ResendServerPackets`, `WritePacket` |
| Two-player modem game | `rt_net.c` | the same rings, one peer instead of a server | `AddModemSubPacket`, `PlayerSync` |
| Game setup | `rt_net.c` | the players' descriptions | `SetupGamePlayer`, `SetupGameMaster`, `SetupCheckForPacket`, `ServerLoop` |
| Clock synchronisation | `rt_com.c` | the clock, `transittimes`, the phase | `SyncTime`, `MasterPhaseHandler`, `SlavePhaseHandler`, `ComSetTime` |
| Sync check | `rt_net.c` | `PlayerSync` records | `CheckForSyncCheck`, `ProcessSyncCheckPacket` |
| Driver interface | `rt_com.c`, `rottnet.h` | the shared `rottcom` block, `badpacket` | `ReadPacket`, `WritePacket` |
| Main loop | `rt_main.c` | `playstate`, `oldtime` | `PlayLoop`, `UpdateGameObjects`, `PauseLoop` |
| Demos | `rt_net.c` | the demo buffer | `RecordDemoCmd`, `UpdateDemoPlayback` |
| Clock and input interrupts | `isr.c` | `ticcount`, the key queue | the handlers, `ISR_SetTime` |
| Zone memory, lump cache | `z_zone.c`, `w_wad.c` | the list of blocks, `rover`, `lumpcache` | `Z_Malloc`, `Z_Free`, `Z_FreeTags`, `W_CacheLumpNum` |
| Doors and elevators | `rt_door.c` | `doorobjlist`, `areaconnect`, `areabyplayer`, the elevators' states and requests | `MoveDoors`, `OperateDoor`, `LinkedOpenDoor`, `ProcessElevators`, `OperateElevatorDoor`, `OperateElevatorSwitch` |
| Push walls, touch plates | `rt_door.c`, `rt_ted.c` | `pwallobjlist`, `touchplate`, `TRIGGER` | `MovePWalls`, `OperatePushWall`, `TriggerStuff` |
| Actors, players, battle, statics | `rt_actor.c`, `rt_playr.c`, `rt_battl.c`, `rt_stat.c` | lists of objects, scores | the states of the actors, `BATTLE_CheckGameStatus` |
| Remote ridicule, messages, cinematics | `rt_dmand.c`, `rt_msg.c`, `cin_*.c` | rings and lists of events | recording and playing, `AddMessage`, `ProcessCinEvents` |
| Drawing, sound, menus, files | the rest | | output and parsing |

How the parts of the network game interact:

- Programs share nothing; they exchange packets through a driver that is not in
  the repository (`rottnet.h` describes the block shared with it). A packet has a
  CRC; a damaged one arrives as `badpacket`.
- A client makes one command per tic of its own clock and sends it to the server
  at once. It simulates a tic when the server's packet for it is there. Its clock
  runs ahead of its simulation by the time the packets travel.
- The server closes a tic when it has the command of every player in the game,
  keeps it in a ring for resends and broadcasts it.
- Both sides number packets by time. They see a loss as a gap in the times, ask
  for the missing ones (`COM_REQUEST`) and get them in a `COM_FIXUP`. Timeouts ask
  again. A slot that waits for a fixup is `cs_fixing`.
- Nothing runs in parallel within a program: `UpdateClientControls` and
  `CheckForPacket` are called from the loops that wait. The interleaving is between
  programs, and between the packets and the frames of one program.

How the parts of a level interact:

- A tic is five loops after each other: doors, elevators, push walls, touch plates,
  actors. Each handles its objects in the order of their list, and each may call what
  another one owns: an elevator locks, shuts and opens doors, a plate opens doors and
  pushes walls, an actor opens a door or waits for it, a door looks for actors in its tile.
- Doors and pushed walls count the connections between areas in `areaconnect`;
  `ConnectAreas` computes from it the areas the players can see, and actors are woken
  and drawn by these.
- What one loop has decided is carried out by another one tics later, after everybody
  else had a turn: an elevator that has been called shuts its door, waits until
  it is shut, travels, and moves whoever is in its cell.

How the zone and its users interact: the user of a block is the address of the
variable that points at it. The allocator clears that variable when it throws the
block out, which any later call of `Z_Malloc` may do.

## 2. What is hard, and what correct means

`PROJECT.json` lists the hazards with their lines. The families are:

- **Reuse of slots.** Times address slots by `time & (MAXCMDS-1)`, statuses do not
  say which tic they are about, and the tests differ: `AreClientsReady` compares the
  time in the slot, `ControlPlayerObj` does not.
- **Loss and its recovery.** A loss is noticed only by the next packet; requests,
  fixups and repeated packets get lost too; timeouts race with late answers.
- **Check, then act.** `ProcessServer` asks whether a tic is complete, reads more
  packets, and then closes it.
- **Leaving.** A player leaves by a command inside a tic. From then on the server
  does not wait for it, and its slots hold a filler.
- **Limits.** Rings against the lead of a client, bytes that hold counts, buffers
  that hold a resend.
- **The order of handshakes** before and after a game.
- **Counts kept in step by hand**: `areaconnect` goes up when a door leaves its first
  position and down when it is back; a door that turns round in between must not count
  twice.
- **State machines that drive each other**: the elevator's and its two doors', with
  actors who hold a door open, stand in it, or have asked for it before it was locked.
- **Headers that were merged away**: rovers, bases and the next block of a loop may point
  at a header that no longer belongs to the list.

Correct means, for the network game: all clients simulate the same tics in order, none twice, none
skipped, none made up (*Lockstep*); nothing the protocol still needs is
overwritten; every tic is closed and simulated in the end. For a level: connections are
what the doors and walls are, nobody is in the shaft of an elevator, is left behind by it
or shut into a door, and an elevator that was called comes. For the zone: the blocks
tile it, owners know what happened to their blocks, and room that is there is found.

## 3. The modules and the code

| module | what it is |
|---|---|
| `Lockstep` | the abstract specification: commands are submitted, tics are closed with one command per present player, clients apply the closed tics in order |
| `RottNet` | the standalone server and its clients, in full: rings, statuses, requests, fixups, timeouts, leaving, lossy queues. Its properties are at the end; `LockstepSpec` says that it implements `Lockstep` |
| `RottNetInv` | the inductive invariant `IInv` of `RottNet`: who made what, types |
| `RottNetFresh` | the invariants on top of it: `OrderInv`, `FreshInv`, `LockstepInv`, and what follows for the players still in the game |
| `RottNetProofs`, `RottNetFreshProofs`, `RottNetLockstepProofs` | theorems about `RottNet`: `IInv` and `OrderInv`, then a module for each of the other invariants |
| `MCRottNet` | its instances for TLC |
| `FixupBuffers` | the loop that cuts a resend into buffers, and `WritePacket`'s limit |
| `FixupBuffersProofs`, `MCFixupBuffers` | its theorems and its instance for TLC |
| `RottSync` | `ComSetTime`: the clocks of the clients are set and the game is started |
| `RottSyncInv` | the inductive invariants `SyncInv`, `LeftInv`, `StartInv` and `PaceInv` of `RottSync`, and what they need of the network |
| `RottSyncProofs`, `MCRottSync` | its theorems and its instance for TLC |
| `Doors` | doors and the connections of areas: the operators that open, close, move and lock a door |
| `Elevators` | the elevators' state machine on top of `Doors` |
| `Triggers` | push walls and touch plates on top of `Doors` |
| `RottLevel` | the composition: the five loops of a tic, with the actors. Its properties are at the end |
| `RottLevelInv` | the inductive invariants `LevelInv`, `CountInv` and `AreasInv` of `RottLevel`, and what they need of the map: `WellBuilt`, `Countable`, `AreasApart` |
| `RottLevelProofs`, `RottLevelCountProofs` | theorems about `RottLevel`: the first invariant, and the other two |
| `MCRottLevel` | a small level for TLC |
| `Heap` | the abstract specification of the zone: blocks in use, which only a call changes |
| `Zone` | `z_zone.c` turn by turn of its loops, and the lump cache as its user; implements `Heap` |
| `ZoneProofs`, `MCZone` | its theorems and its instance for TLC |

### RottNet

Variables keep the names of the code, indexed by the player whose client holds
them. The server's copies of a variable both sides have are called
`ServerLastCommandTime` and `ServerPlayerStatus`. `toServer[p]` and `toClient[p]`
are the driver's queues. `submitted`, `log` and `applied` are history: what was
made, closed and simulated.

| action | code |
|---|---|
| `PrepareLocalPacket` | `UpdateClientControls` and `PrepareLocalPacket`: a command for the next tic, into the ring and to the server |
| `AddServerPacket` | the same function: gap, request, `AddServerSubPacket` |
| `ClientFixupPacket`, `ServerFixupPacket` | `FixupPacket` |
| `ResendLocalPackets`, `ResendServerPackets` | the functions of that name, with the checks of `ResendPacket` |
| `ClientBadPacket`, `ServerBadPacket` | `CheckForPacket` with `badpacket` |
| `ClientTimeout` | the wait of `ControlPlayerObj` |
| `SimulateTic` | one tic of `UpdateGameObjects`: `ControlPlayerObj`, `ProcessPlayerCommand`, `ResetCurrentCommand` |
| `LeaveGame` | the end of `PlayLoop` and `ShutdownClientControls` |
| `AddPacket`, `IgnorePacket` | `AddPacket` |
| `AreClientsReady`, `SendFullServerPacket` | the two halves of `ProcessServer`, with packets read in between |
| `ServerTimeout` | the timeout of `ProcessServer` |
| `LoseToServer`, `LoseToClient` | the driver loses a packet |

Choices that need a word:

- *Times* count from `controlupdatestartedtime` in units of `controldivisor`.
- *A tic is one step.* A frame may simulate several tics; each is a `SimulateTic`,
  with packets read in between, as `ControlPlayerObj` does.
- *`FixupPacket` in closed form.* The loop over sub-packets is written as the set of
  those that land on a waiting slot. This is the loop: a request asks for at most 255
  packets (a byte), so a fixup never visits a slot twice, and a sub-packet's slot is
  the one its turn looks at (`FixupsAreConsecutive` checks it).
- *Fillers.* `memset` fills ring slots with `COM_DELTANULL` at the start and with
  `COM_DELTA` when a player leaves. The times that result (0x19191919, 0x01010101)
  are no tics of a game but address a slot; `FillSlot` is that slot, and
  `FillTime` a time that is no tic. One filler stands for both.
- *Kinds.* What a command does to the simulation does not matter here, so
  `COM_DELTA`, `COM_DELTANULL`, `COM_TEXT`, `COM_SOUNDANDDELTA`, ... are one kind.
- *Lead.* A client makes commands by its own clock; `MaxLead` bounds how far it is
  ahead of its simulation. The code has no such bound in a network game, the
  passing runs assume `MAXCMDS - 1`, and `net_overrun` shows what happens without.
- *Timeouts.* A timeout while packets are still on their way counts as a fault;
  `NETWORKTIMEOUT` is meant to be longer than the way there and back. A driver queue
  that is full drops packets, which is no fault.
- *`applied`* ends with the tic of `ENDGAME`: what a client simulates afterwards, before
  its `PlayLoop` ends, is not shown to anybody.

### FixupBuffers

One run of the loop for one request. `ring` holds times only, `size` is the size of
the packet the loop looks at (any member of `PacketSize`), `tempptr` the bytes used,
`written` the buffers passed to `WritePacket` with the header each carries.
`StartBuffer`, `CopyPacket` and `WriteBuffer` are the parts of the loop.

### RottSync

The only module with time in it. `now` is the master's tic count (a standalone server
never sets its clock); a slave's clock is `now + offset[c]`, and `ISR_SetTime` changes
the offset. Each program is a chain of loops, and `mstate` and `sstate` say which one
it is in:

| state | loop |
|---|---|
| `hello` (both) | `InitialMasterSync`, `InitialSlaveSync` |
| `drain`, `rest` | the pauses after the hello: reading and throwing away, then not reading |
| `phases` (both) | the ping-pong in `SyncTime` |
| `settle` (both) | the two waits at the end of `SyncTime` |
| `start`, `startagain`, `waitstart`, `flush` | the two `COM_START`, waiting for one, the last wait of `ComSetTime` |

`MasterDeadline` and `SlaveDeadline` give the tic at which such a loop ends or
sends again. The programs poll, so `Tick` is possible only when nobody can do anything
in the present tic. A packet carries the tic at which it arrives; the queues keep
their order. `dtime` is indexed by phases 0 to 4; an answer with another phase would be
an access out of bounds, for which the model has no step (`AnswersAreCurrent` shows
that there is none as long as packets are faster than `SYNCTIME`).
`MasterPhaseHandler` sets `sync->sendtime` into the future, but `SendSyncPacket`
overwrites it at once: the master leaves `SyncTime` earlier than the slave.
`missed` is history: the clients whose `SYNC_PHASE5` was lost. That packet is sent once and not
answered, so such a client stays in `SyncTime`; the properties say that it is the only one to
suffer, and of nothing else that gets lost.

### RottLevel, with Doors, Elevators and Triggers

`Doors`, `Elevators` and `Triggers` hold the state of their part and operators for its
functions; they have no next-state relation of their own, since the code never runs one of them
alone. `RottLevel` takes one step per object a loop handles: `phase` is the loop, `turn` the
object. `place` says where an actor is: the tile of a door, or a spot of the map. `cabin` is
history: the cell the elevator is at.

| action | code |
|---|---|
| `MoveDoor` | a turn of `MoveDoors`: `DoorOpen`, `DoorOpening`, `DoorClosing`, with `ConnectAreas` when the count changes |
| `ProcessElevator` | a turn of `ProcessElevators`: waiting, `ExecuteElevatorStopActions` with `Teleport`, `CheckElevatorStart` |
| `MovePWall` | a turn of `MovePWalls`: `WallPushing`, the next leg |
| `TriggerStuff` | a plate: its actions, each after its delay; re-arming |
| `DoActor`, player | `Cmd_Use` (door, elevator switch, push wall or nothing), the move, the plate it steps on |
| `DoActor`, enemy | `CheckDoors` (ask for a door), `M_CheckDoor` (wait for it), the move |

- *Order of the actors.* `SetupGameLevel` places the players before the actors of the map
  and `MakeActive` appends, so players think first (`LevelAssumption`).
- *`rushed`.* A door that was told to open still has position 0 until the next `MoveDoors`. If
  it is used again in that very tic, it closes from position 0, and `DoorClosing` takes away
  a connection that was never counted: the byte wraps to 255. Users may do so in the model as in the
  code; `rushed` is history, the doors this has happened to, and `MaxRushed` bounds it for TLC: no door
  is turned round any more when so many have been (a doorway of two doors counts as two). Counts and areas are
  wrong from then on (`level_count`), and `OnlyRushMiscounts` and
  `AreasFollowPlayers` say that nothing else makes them wrong. The other properties hold with it.
- *Elevator times.* `SetElevatorOperationTime` chooses among three lengths by distance; `TripTime` is
  the one of the model's elevators.
- *Door timers.* The ticcount of an open door stops at `OPENTICS` in the model. In the code it goes
  on and its short wraps after 32767 tics, which only delays a door that is held open for 15
  minutes.

### Zone

`mem` maps addresses to headers, in units of the alignment; `Cap` is `&zone->blocklist`. A
header that was merged into the block before it stays in memory and is marked `gone`.
`pc` says which loop runs; `base`, `scan` and `start` are `base`, `rover` and `start` of
`Z_Malloc`, `block` is that of `Z_FreeTags`, `req` holds the arguments.

| action | code |
|---|---|
| `W_CacheLumpNum` | the function: `Z_Malloc`, or `Z_ChangeTag` |
| `TakeUnowned`, `GiveBack` | `SafeMalloc` and other calls without an owner; `SafeFree`, `Z_Free` |
| `ScanKeeps`, `ScanPurges`, `ScanPasses`, `ScanFails` | one turn of the scan of `Z_Malloc` |
| `Allocate` | the rest of `Z_Malloc`: the split, the owner's variable, the rover |
| `BeginSweep`, `Sweep`, `EndSweep` | `Z_FreeTags` |

- One zone is modelled: `Z_LevelMalloc` is the same function on another one, and the zones have no
  block in common.
- `Z_FreeTags` reads `next` before it frees a block, and the free may merge the next block away: the loop
  then goes on from a header that is `gone`. Its `next` still holds, because nothing else
  runs. `Freed` therefore leaves such headers alone, and only the end of the sweep (and every
  other free) scrubs them, which keeps states that differ in dead headers together.
- Callers without an owner use tags below `PU_PURGELEVEL`, as all of them do in the code (`Z_Malloc`
  ends the game otherwise). They forget what they held for the level when `Z_FreeTags` is through.

## 4. The runs

| run | instance | what it shows |
|---|---|---|
| `net_ring` | 1 client, 4 slots, 6 tics, lead 3, queues of 2, fair, 2 faults | all slots in use while the rings wrap: no slot is reused too early (`CollectedIsCurrent`, `NeededTicsHeld`, `NoFatalError`), no stale fixup; gaps, requests and fixups of several packets, also gaps whose first packet is waited for already, of which only the timeouts ask for the rest: every tic is closed and simulated all the same |
| `net_endings` | 2 clients, 2 slots, 4 tics, 1 fault, all kinds | every way to leave, at the wrap of the ring; the server is never ahead, nothing is made up, `LockstepSpec` |
| `net_quit` | 3 clients, 2 slots, 3 tics | those who stay agree on who left and on every command |
| `net_overrun` | 1 client, 2 slots, lead 3, no fault | *violation*: the client's Error |
| `net_reset_slot` | 3 clients, 3 slots | *violation*: the filler of a player who left hits a slot in use |
| `fixup_pieces` | ring of 5, buffers of 12 bytes | the pieces of a resend fit together |
| `fixup_crc` | the code's sizes | *violation*: no room for the CRC |
| `sync` | 2 clients, 1 fault: a lost packet of any phase, or a late answer to the hello | the clocks agree to within a packet's travel and the transit time is right; no stale answers; nobody is left in `SyncTime` but a client that missed `SYNC_PHASE5`, and all others begin together and in time |
| `level_tics` | 2 players and an enemy around an elevator and its doors, or 2 players, or a player and an enemy, at a doorway of two doors with two push walls and a plate; fair | the shaft is shut, nobody is left behind or shut in, a called elevator arrives; only a door turned round before it moved spoils a count, and until then areas follow the players |
| `level_count` | the doorway | *violation*: two users in one tic make the count of two areas wrap |
| `zone` | 9 units, 3 lumps, 1 holder, 3 tags | the list is whole at every turn, owners are told, sweeps are complete, a failure is real, calls end, and `Heap` is implemented |
| `zone_cachable` | the same | *violation*: `Z_Malloc` gives up although a cachable block is left |

The run of `RottSync` scales `SYNCTIME` (15) and `VBLCOUNTER` (35) down to 5 and 12; a
packet travels 0 or 2 tics, so that a slave may be behind the master by one tic or ahead
by two. What matters is kept: a round trip is shorter than `SYNCTIME`, and
`VBLCOUNTER/4` is shorter than `SYNCTIME`. `MaxTime` is late enough for everybody to start in
spite of the faults; `OthersStart` says so. `Lossy` names the phases whose packets get lost; in `sync` it has
every phase, `SYNC_PHASE5` too, which nobody answers. `COM_START` is not lost by the network in the model, but
a client in its pause throws the first one away. An answer to the hello may be late by more than
`SYNCTIME` once (`Late`), so that the hello is sent twice. There is no liveness property here:
time is bounded, and `OthersStart` is stronger than "in the end". `SyncAssumption` lets TLC
evaluate what the theorems assume of the network on this instance.

**Bounds.** What matters of a ring is that it wraps and that gaps, requests and
fixups of more than one packet occur in it; two to four slots and one or two
rounds do that. `MaxTime` lets every ring wrap at least once where wrapping is the
question. `ChanCap` is at least the number of packets one request can cause. A
fault is a loss, a damaged packet or an early timeout; two faults lose a packet and
the answer to its request. One client is enough where the property is about one
ring pair, two make the server wait for the slower one, three are needed to have two
clients that disagree about a third. In `net_overrun` and `net_reset_slot` the ring
is smaller than 256, which only shortens the trace: both need a client that is
`MAXCMDS` tics ahead or behind, or a filler that meets a pending tic.

In `net_ring` the client is three tics ahead, so that gaps of one, two and three packets arise on both sides. Two
faults are what a gap takes whose first packet is waited for already, and a full queue drops packets too.
Liveness is checked with this one client: what a second one adds is that the server waits for the slower, which
`net_endings` and `net_quit` have.

The level has each kind of object once where the objects do not influence each other
and twice where they do: an elevator has two doors, a group of doors (`DF_MULTI`) two, a
plate acts on a door and on a locked wall with two legs, and one wall is free. The
runs start with two players and an enemy around the elevator (`MCAtElevator`), or with two players, or a
player and an enemy, at the doorway (`MCAtDoorway`); in the wing without actors nothing moves. `MaxRushed` is one: after the first door
that was turned round there is a wrong count to live with. Three actors are what it takes to have one in the cabin, one in the
door and one who calls from the other side. `OPENTICS`, `PushTics` and the door's way are two,
one and two tics: what matters is that other loops run between the beginning and the end of
each. The `Zone` of nine units holds up to four blocks with headers of one unit and a
`MINFRAGMENT` of one: enough for a block with free blocks on both sides, a block that is too
small to be split, and a scan that begins behind the rover.

**Fairness** (`FairSpec`). Each program is a loop that reads packets and simulates
whenever it can: weak fairness of reading (`AddServerPacket`, ... ), of
`PrepareLocalPacket`, `SimulateTic`, `AreClientsReady` and `SendFullServerPacket`.
Timeouts are strongly fair: the loops compare the clock with `savetime` on every
round, so a wait that goes on in spite of other packets times out, but
the wait may be interrupted. Losses, damage and what the player does are not fair.
The number of faults is finite: a network that loses everything makes no progress.
`RottLevel`'s `FairSpec` says that the loops come round again and again (`[]<>(phase = "doors")`
and `[]<>(phase = "actors")`), since `UpdateGameObjects` is called for every tic; no actor
is made to move or to use anything. `Zone`'s is weak fairness of the steps within a call.

## 5. The proofs

**`RottNetProofs`** proves, for every set of players, size of rings, lead, capacity
and number of faults allowed by `RottNetAssumption`:

- `TypeCorrect`: `Spec => []TypeOK`
- `NeverAhead`: `Spec => []ServerNeverAhead`
- `Genuine`: `Spec => []NothingInvented`

All follow from `Inductive: Spec => []IInv`. None of the three is inductive: what a
client simulates comes from `PlayerCmds`, that from packets, those from the server's
rings, those from the clients' packets and rings. `IInv` therefore says of every
place a command can be in that it holds commands of the right player
(`ClientRingsOK`, `ServerRingsOK`, `QueuesOK`, `SimulatedOK`), that the commands of a
player are numbered by their tics (`SubmittedOK`; with it, a collected command that
carries the time of the tic shows that its player got that far), and that between
the check of `AreClientsReady` and the closing the server is strictly behind
(`AheadOK`). The module has a lemma per action.

There are three more invariants about `RottNet`; each needs the ones before it.

The second part of **`RottNetProofs`** proves, for the same constants and any lead of a client:

- `Ordered`: `Spec => []OrderInv`
- `FixupsFollow`: `Spec => []FixupsAreConsecutive`
- `SequenceKept`: `Spec => SequenceNeverMovesBack`

`OrderInv` says what the code takes for granted about the driver and the rings. A queue holds the
packets of the tics in increasing order, behind the one its reader had last, and requests for
packets that existed when they were made (`InOrder`); a ring holds the last `MAXCMDS` packets
that were put in it and nothing newer (`RingHolds`). A fixup is then a run of consecutive tics,
because a slot that was reused holds a time the request did not ask for.

**`RottNetFreshProofs`** proves, under `NoOverrun` (`MaxLead < MAXCMDS`: no client's clock runs a
whole ring ahead of its simulation):

- `Fresh`: `Spec => []FreshInv`
- `Current`: `Spec => []CollectedIsCurrent`
- `StaysReady`: `Spec => []CheckedStaysReady`
- `NoError`: `Spec => []NoFatalError`
- `TicsHeld`: `Spec => []NeededTicsHeld`

`FreshInv` is about the statuses, which do not say which tic they are about. An end that uses the
tics from `from` on has a slot for each tic of the `Window(from)`; a slot is ready only if its
tic has arrived and is fixing only up to the packet after it (`StatusOK`), and on the server a ready
slot holds the command of its tic (`ReadyOK`). For that a fixup that arrives must not be a whole
ring old (`Recent`), and a request must not ask for what the client has overwritten: what is asked
for was not closed then (`Unclosed`), so the client has not simulated it, so with `NoOverrun` its
ring still holds it. All this is needed only for a player in the game, or that has been asked
while it was (`Followed`): the server lets go of the rings of a player who left.

**`RottNetLockstepProofs`** proves, under `NoOverrun`, that the clients agree:

- `InStep`: `Spec => []LockstepInv`
- `StayersFollow`: `Spec => []StayersTicIsClosed`, and `StayersAgree`: `Spec => []StayersInSync`
- `NobodyRemoved`: `Spec => []StayersStay`
- `NextTicClosed`, `InSync`: `[](NobodyLeft => ...)` of `NextTicIsClosedTic`, `ClientsInSync`
- `ClosedInStep`: `Spec => ClosesInLockstep`, and `PlayedInStep`: `Spec => PlaysInLockstep`
- `Refinement`: `Spec => LockstepSpec`, if moreover `Kind` has none of the commands with which a player
  leaves

`LockstepInv` follows a command from the closed tic (`ClosedInv`: the packet of a tic has the
commands for that tic of everybody in the game) through the log (`LogInv`) and a client's ring to what
is simulated (`SyncInv` of `RottNetFresh`, which is not that of `RottSyncInv`). A ready slot of a client holds the packet of its tic by `FreshInv`, and the
packet of a tic is what the log says, because both are numbered by the tic in the history of the player.

*How far each goes.* `NoOverrun` is needed: `net_overrun` is the counterexample without it. It is an
assumption about play, not about the code, which has no such limit (section 7). Players may
leave at any time in all of these, and `ClosesInLockstep`, `StayersTicIsClosed`, `StayersInSync` and `StayersStay`
hold whoever has left: they say of the players still in the game what `LockstepSpec`,
`NextTicIsClosedTic`, `ClientsInSync` and `SameRoster` say of all. The latter hold only until the tic of the first `QUIT`
or `ENDGAME` is closed (`NobodyLeft`), and that is where the code stops: in `net_reset_slot` the filler of
a player who left overwrites its last command in a client that is behind. For the
instances of `net_endings` and `net_quit`, where no filler meets a pending tic, TLC shows them after that too. TLC
checked the three invariants on instances of one and two clients like those of section 4 before they were proved.

**`FixupBuffersProofs`** proves for every ring, buffer size and mix of packet sizes:

- `TypeCorrect`: the buffer is never written beyond its size
- `InOrder`: `Spec => []PiecesInOrder`
- `Complete`: `Spec => []NothingLeftOut`
- `GetsOn`: `Spec => []NoEmptyBuffer`, so that the loop always gets on

Its invariant adds to `PiecesInOrder` that the slot the loop is at belongs to the
next packet, that the buffer in hand starts where the last one ended, and that there
is a packet left for it. The step
along the ring needs arithmetic of remainders (`DivMod`, `ModStep`, `ModNear`).

**`ZoneProofs`** proves for every size of zone, header and fragment, every set of lumps with any lengths, every
set of holders and of tags that `ZoneAssumption` allows:

- `TypeCorrect`: `Spec => []TypeOK`
- `SoundHeap`: `Spec => []HeapIsSound`
- `Told`: `Spec => []OwnersAreTold`
- `RealFailure`: `Spec => []FailureIsReal`
- `CompleteSweep`: `Spec => []SweepIsComplete`
- `Implements`: `Spec => HeapSpec`, the refinement of `Heap`

All rest on `Inductive: Spec => []IInv`. `IInv` adds to the properties what the loops rely on.
`Sound` says of the headers that links agree both ways, that blocks lie side by side and do not
overlap (which `HeapIsSound` does not say: it follows a link at a time, and a list that goes
round twice would satisfy that), and that a header that was merged away is free. `Coalesced` is
kept apart from it, because the two merges of `Z_Free` break it in between: `FreedAs` writes the
function as two joins, and `MergeNextSound` shows that the second restores it. `ScanInv` says where
the scan stands: `base` is the block it looks at, behind a block in use, or the free block before
it. This is what makes `base = mem[base].prev->next` right after a purge, whether the purged block
was merged backwards or not. `HoldersTold` and `RequestInv` say that a block without an owner is not
purgable and has one holder, and that who asks has none yet. For the refinement
`FreedReleases` (a free takes one block away and leaves the others), `AllocateAdds` and `CacheRetags`
give the step of `Heap`; the turns of the loops are stutters.
The two results about whole loops add what the loop has behind it. `PassedInv`: every
block that lies `Between` `start` and `base` on the way round the list was `Kept`, too small if free and
not purgable if used, so when `base` is back at `start` this is all of the list but `start`.
`SweptInv`: no used block with a tag of the level lies below `block`, and if the header at `block`
was merged away, its stale `next` still leads to a listed block with nothing to free in between.

**`RottLevelProofs`** proves of every level that is `WellBuilt`, with any number of doors, elevators,
walls, plates and actors:

- `LevelInvariant`: `Spec => []LevelInv`
- `LevelTyped`: `Spec => []LevelTypeOK`
- `ShaftStaysShut`: `Spec => []ShaftIsShut`
- `NobodyStaysBehind`: `Spec => []NobodyLeftBehind`
- `NobodyIsShutIn`: `Spec => []NobodyShutIn`

`LevelInv` has three parts, each about something the code remembers in several places.
`TypeInv` adds to the types that the entries of a plate are those it was made with (`ListOK`).
`DoorsInv`: the doors of a doorway open and close as one (`Together`), and `actorat` of a door
with somebody in its tile holds the one of them who had the last turn (`Marks`). That is why
one field per tile is enough: who leaves clears the field only if it holds him, and then
nobody else is there. `ShaftInv`: the elevator's state, the locks of its two doors and the cell
of the cabin agree (`CabinOK`), nobody is in the other cell, and the door of an elevator that an enemy
waits for has not been shut again since he asked for it (`WaitInv`). The last is what makes `M_CheckDoor`,
which opens the door whatever its locks say, harmless: players think before enemies, so a
door that a player locks is closing at most when the enemy asks again.

`WellBuilt` says what a map must be like; TLC evaluates it for the level of the runs
(`MapAssumption`). The doors of a doorway name each other (`DoorwaysAgree`: `LinkedOpenDoor` walks along the `DF_MULTI` doors from any of them); two
doors are not next to each other (`DoorsApart`: an enemy in one that asks for the other would be shut in);
the cells of the elevators are different places, not doors, and entered by their door only
(`CellsApart`, `CellsWalledIn`: an elevator with a second way in has an open shaft); nobody starts in a door or in
a cell without its cabin (`StartsOutside`); no plate is linked to an elevator's door
(`PlatesSpareElevators`: `LinkedOpenDoor` ignores the elevator's lock). None of these is about what
happens in play; all but the first are up to the maker of the map, and the code does not test them.

**`RottLevelCountProofs`** proves of every level that is `WellBuilt` and `Countable`:

- `CountInvariant`: `Spec => []CountInv`
- `OnlyRushes`: `Spec => []OnlyRushMiscounts`

A door is counted when it leaves position 0 and uncounted when it is shut, so its count goes wrong when
it is told to close before it has moved. Users do that to it (`rushed`, section 3), and the theorems put
no restriction on them: they say that nobody else does, and that it spoils no count but that of the door's own two
areas. `CountInv` therefore says where a door that was told to open and has not moved can
come from (`ToldInv`): an elevator that has just stopped, a plate before this one, or an actor of the last
tic; and that any door that closes is out of position 0 or was turned round there (`PositionsOK`). `Countable` is
`PlatesAgree` and `CountsFit`, which are about the map. `PlatesAgree`: a door that an entry of a plate closes is
not opened by another entry. `SetupDoorLinks` (`rt_ted.c:3433`) gives the tile of a door one entry of one
plate, with the same call before and after the exchange, so this fails only in a doorway of several doors
whose tiles the map links in opposite ways. `CountsFit`: no two areas have 256 doors and pushes between
them. The counts themselves change by a door or a push at a time
(`DoorConnects`, `DoorDisconnects`, `PushConnects`), which are steps of a cardinality.

On top of both it proves, of a level where `AreasApart` holds too:

- `AreasInvariant`: `Spec => []AreasInv`
- `AreasFollowed`: `Spec => []AreasFollowPlayers`

Both say nothing once a door was turned round before it moved (`rushed = {}` is in their statements, not assumed of the
users): with a count that has wrapped, areas connect through shut doors or do not through open ones.

The code calls `ConnectAreas` when a connection is made or unmade, and not when a player walks. That is
enough because who gets from one area into another has a connection between them that is counted
(`WalkConnected`): he is in a door that is open, or where a wall has been pushed away. `RecursiveConnect`
is modelled by as many rounds as there are areas; it finds the least set of areas that is closed under the
connections (`ConnectedIsClosed`: a round that adds no area is the last that would, and each of the others
adds one; `ConnectedIsLeast`), and the areas on both sides of a step are in the same closed sets.
`Teleport` alone moves players without a connection; `AreasInv` says that the door it has told to open has then not
moved yet (`AboutToMove`), and its first move brings `areabyplayer` up to date. `WallsGoOn` says what can be walked
over: a locked wall does not rest on its way, so what its second leg connects is connected as soon as its
first tile is free.

`AreasApart` is what the map maker's area numbers are for: places next to each other are in one area,
or a door is between them whose `Side` is their two areas, or a push wall was, and what it had connected when it
left its first tile leads from one to the other. TLC evaluates it too (`MapAssumption`), and has checked
`LevelInv`, `CountInv` and `AreasInv` themselves on that level.

`FairSpec` implies `Spec`, so all this holds in the runs. The list of a plate is a loop (`RunList`, a
recursive function over its entries); what holds after each turn holds after the loop by
induction over the set of the turns (`SetInduction`, `LoopStays`, `ListPass`).

**`RottSyncProofs`** proves, for any number of clients and faults, any transit times and any clocks of
the clients at first, under `NetworkAssumption`:

- `SyncInvariant`: `Spec => []SyncInv`
- `SyncTypes`: `Spec => []TypeOK`
- `ClocksAgreeAlways`: `Spec => []ClocksAgree`
- `AnswersCurrent`: `Spec => []AnswersAreCurrent`
- `TransitMeasured`: `Spec => []TransitIsMeasured`
- `LeftInvariant`: `Spec => []LeftInv`, and `OnlyMissed`: `Spec => []OnlyMissedBehind`

and, if moreover `StartsFit` holds:

- `StartInvariant`: `Spec => []StartInv`, and `NobodyIsLate`: `Spec => []NobodyLate`
- `PaceInvariant`: `Spec => []PaceInv`
- `AllStart`: `Spec => []OthersStart`, if `MaxTime` lies behind `LastMoment` (`TimeEnough`)

Nothing is assumed about which phases lose packets. What is said of the end of the synchronisation is said of the
clients outside `missed`: nobody answers `SYNC_PHASE5`, and a client that misses it is left behind.

The packets of `SyncTime` carry a phase but no number, and nothing in the code tells a first answer from
that to a packet sent again. What keeps them apart is time alone, so the invariant bounds how old each packet
on its way can be. `SyncInv` has a part for each stage of a client's turn. While the master waits for the
hello, the answers that are on their way arrive close together (`AnswersClose`), because a slave
throws away what comes for `SYNCTIME` after it has answered. When the master has thrown
packets away for `SYNCTIME` nothing is left in either direction (`MasterDrainOK`, `RestOK`), and the slave enters the
phases before the master does. From then on there is one packet at most, and it is the one the master
sent last or the answer to it (`PingPongOK`): a packet is repeated only after both ways must be over
(`NothingOnItsWay`). Hence the time from the last sending to the answer is a real round trip (`TimesOK`; half the average
of several is between none and one transit), the clock in the answer to `SYNC_PHASE4` is the slave's, and the
correction in `SYNC_PHASE5` leaves it off by one transit at most, whatever the earlier ones did (`LeavingOK`).

`LeftInv` is about the clients that wait for a `SYNC_PHASE5` that does not come any more: the master is done with
such a client (`TurnDone`, or its turn is over) and nothing is on its way to it. Only the step that loses that
packet makes a client such a one, and it puts it into `missed`; when `COM_START` is heard, these are all the
clients that are not synchronised.

`StartInv` is about the last pause. The master sends `COM_START` as soon as its own is over, when the
clients may still be throwing packets away or not reading; it sends it again a quarter of `VBLCOUNTER` later. A
client's pause began before the first one was sent (`SettleOK`), so the second is read if not the first
(`StillWaiting`), and before the master has waited for `VBLCOUNTER` (`HearingOK`).

`PaceInv` says when each stage ends at the latest. A turn takes `TurnTime`, three pauses and five
round trips. Something that is lost or late sets all that follows back by `FaultTime`, and by no
more although the slave and the master wait for each other in the hello: a slave whose answer was lost throws the
next hello away until its pause is over and answers the one after it (`HelloPace`). A tic passes only
when nobody has something to do, so the bounds on the deadlines bound `now` (`InTime`).

*What is assumed of the network.* `Prompt`: a packet and its answer take less than `SYNCTIME` together;
otherwise an answer may be taken for that to a later packet. `LateOnce`: a hello and a late
answer to it also take less than `SYNCTIME` together, or only one thing goes wrong;
section 7 tells what happens otherwise. `StartsFit`: a packet takes no longer than `VBLCOUNTER/4`, and
`SYNCTIME` and a transit together less than `VBLCOUNTER`. With the code's values, 15 and 35 tics, a transit of up to
seven tics (a fifth of a second) satisfies all of them. TLC has checked the four invariants on the
instance of `sync`, and on others with one client and two faults, and with a client that comes late and an answer
that takes nearly three `SYNCTIME`.

**Only model-checked**: what all players see of one who has left (`SameRoster`; `NextTicIsClosedTic`,
`ClientsInSync` and `LockstepSpec` from then on). Liveness (`EveryTicIsClosed`,
`EveryTicIsSimulated`, `RequestedElevatorArrives`, `CallsEnd`) stays with TLC: the prover does not handle
fairness and `ENABLED`. Every other property of the passing runs is proved.

## 6. What the models leave out

- The server that is also a client (`standalone == false`): it calls the same
  functions, with its own packets going through the rings directly.
- Restart by `COM_GAMEEND`, pause, and the end of a game frame by frame.
- The contents of commands, sound packets, remote ridicule.
- The driver: any implementation that keeps the order of packets per sender.
- Of a level: gas doors, masked and moving walls, sounds, keys, clocks that trigger, dead
  bodies (`ResolveDoorSpace`), the direction of a push and `buttonheld`, the neighbouring tiles
  `DoorUnBlocked` looks at for actors that overlap the door's, the lists of active actors, and
  everything actors do except walking and using. Only doors, walls and plates that exist are
  looped over. With an enemy that thinks before a player `ShaftIsShut` fails; the
  code orders them the other way (`LevelAssumption`).
- Of saved games: loading connects the areas of a push wall again only if it has left its first
  tile (listed as a hazard).
- Of the zone: what callers do with their memory, `Z_CheckHeap`, `Z_DumpHeap`, the sizes of the
  heaps at the start, and `Z_Realloc` as one call. It is a `SafeMalloc`, a copy and a `SafeFree`, which are
  `TakeUnowned` and `GiveBack`; only `W_AddFile` calls it, before a game.
- The rest of the program, as `PROJECT.json` lists under `components`; section 8 says why.

## 7. What was found

1. *A client that runs ahead ends with an Error* (`net_overrun`). In a network game a
   client goes on making commands while it waits. If it has made 256 more by the time it reads the
   server's request for one (requests were lost or are late for seven seconds), the slot is reused. In the
   run nothing is lost: the server's timeout asks for a command before it is made, and the client is a ring
   ahead when it reads that.
2. *The filler of a player who left can hit a slot in use* (`net_reset_slot`). The
   server goes on sending a player's reset slots, every tic, and a client stores
   them by the time in them: one fixed slot. A client that has not simulated that
   player's `QUIT` yet may find the filler in its place.
3. *A resend of exactly 2047 or 2048 bytes ends the server* (`fixup_crc`).
4. *`Z_Malloc` gives up although a cachable block is left* (`zone_cachable`). The block before
   the one where the scan began ends the scan before its tag is looked at, so it is never thrown
   out; the head of the file says that cachable blocks are overwritten if needed.
5. *A door used twice in a tic spoils the count of its areas* (`level_count`). The first use tells it to open, the
   second to close before `MoveDoors` has moved it: it is uncounted without having been counted, and the byte
   of `areaconnect` wraps to 255. The areas connect through a door that is shut.

Also worth knowing, without a run that shows it:

- `SYNC_PHASE5` is sent once and not answered. A client that misses it stays in `SyncTime` and ignores `COM_START`,
  and the game says "All players synched." (`rt_com.c:557`) all the same. `sync` loses that packet, and
  `OnlyMissedBehind` and `OthersStart` say how far the message is true and that nobody else is held up.
- When a door whose count has wrapped to 255 is opened next, the count comes back to 0: the areas on both sides
  are not connected while the door is open. `areabyplayer` leaves out the one a player walks into, against the
  head of `rt_door.c` (line 60), and its actors sleep. `AreasFollowPlayers` therefore says nothing of such a level.
- If answers take longer than `SYNCTIME` more than once, the second answer to a hello falls into the pause in
  which the master does not read, and is taken for an answer to `SYNC_PHASE1` (`rt_com.c:718`).

## 8. The plan, and what is not modelled

Done: `Lockstep`, `RottNet`, `FixupBuffers`, `RottSync`, `Doors`, `Elevators`, `Triggers`,
`RottLevel`, `Heap`, `Zone`; theorems about `RottNet`, `FixupBuffers`, `RottSync`, `RottLevel` and `Zone`.

What would come next:

1. **After a player left**, proofs: that all agree on it too, as long as no client has a pending tic in
   `FillSlot`, which is what `net_reset_slot` needs.
2. **Sync check**, as a module on top of `RottNet` (see below).

**Not modelled**, and why:

- *Game setup* (`SetupGamePlayer`, `SetupGameMaster`): it decides before the first tic who plays; its
  known weakness, that the server leaves the relay loop with the first `COM_GAMEPLAY`, is listed as a
  hazard. A model needs the lobby of `rt_menu.c` and the driver's start, which are not in the core.
- *Two-player modem game*: the same rings with one peer instead of a server. The port cannot start one:
  `InitROTTNET` always sets `gametype` to 1, `NETWORK_GAME` (`rt_com.c:130`).
- *Sync check*: every 140 tics a client sends where its players are, as a command of a tic, and the
  others compare when they simulate it. What it tests is what `ClientsInSync` states; the record
  shared by all players is listed as a hazard. It is the next part to model, on top of `RottNet`.
- *The last frames of `PlayLoop`* after `ENDGAME` or `COM_EXIT`: input and drawing of the menu decide when
  a program leaves them.
- *Demos, remote ridicule, messages, cinematic events, statics, lights, battle rules, random
  numbers*: sequential code over lists and tables with a single caller per tic; what could go wrong
  in them is data (wording, positions, scores), which a model of their control would not show.
- *Actors*: about a hundred state functions of geometry and random choices. What they do to doors
  and areas is modelled; the rest has no promise the code states.
- *Saved games, map loading*: conversions between files and tables.
- *Clock and interrupt handlers*: the port replaces them by SDL's event loop, in one thread.
- *Sound, rendering, menus, platform ports, vendored libraries*: output, parsing, and code that is not
  the program's own.
