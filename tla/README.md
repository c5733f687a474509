# A TLA+ development of java_iotwrap

`java_iotwrap` lets Android applications share one connection to an IoT cloud. A native service,
`iot_server`, owns the cloud SDK and a *shadow* of the device's properties; applications reach it over
binder through a small client library and a Java class. This directory holds a model of the parts that
have logic of their own, the runs in which TLC checks it, and the proofs that TLAPS checks.

## 1. Inventory

| Component | State | Operations | Hard parts |
|---|---|---|---|
| **Registry and dispatcher** `IOTService` (`jni/server/IOT_Service.cpp`) | `m_clients`, `m_keyFollow`, `m_cmdFollow` under `m_lockClis`; `m_command`, `m_property` per client; `m_condition` | `createClient`, `followProperty`, `followCommand`, `registCommandCB`, `registPropertyCB`, `binderDied`/`removeClient`, `waitForClient`, `callCommandCB`, `callPropertyGet`, `callPropertySet` | binder threads against the IOT thread; death of a client at any point; a mutex held over calls into other processes; a condition without a predicate |
| **Shadow and report loop** `DeviceShadow` (`jni/server/IOT_DeviceShadow.cpp`) | `m_iotAttrs` under `m_lockAttrs`; `m_reportFlag`, `g_forceReport`, report bits (partly without it); `m_shadow` | `doAddProperty`, `doReportProperty`, SDK callbacks, `setupShadow`, `preShadow`, `updateProperties`, `pushProperties` | urgent pushes against batch pushes; flags cleared without the mutex; two places that register attributes; an SDK that fails |
| **Client library** `IOTClientJNI` (`jni/client/IOT_ClientJNI.cpp`) | `m_propertyList`, `m_commandList`, `m_proxy`, `m_listen`, three mutexes | `connService`, `_connect`, `_postFollow`, `followProperty`, `followCommand`, `reportEvent`, `reportProperty`, `serviceDied` | several threads that connect; `serviceDied` on a binder thread without locks; a server that dies and is restarted by init at any point |
| **Values and messages** (`IOT_Service.cpp`, `IOT_DeviceShadow.cpp`, `jni/binder`) | attribute memory, the buffer of a polling round | `callPropertyGet`, `updateProperties`, `doReportProperty`, `_DS_call_default_command_cb` | answers copied over one another; strings stored without a terminator; a parser made of `strstr` and `strchr` |
| **Call chains** (all of the above) | `m_lockClis`, `m_lockAttrs`, `m_lockProxy`, `m_lockPropertyList`, `m_lockCommandList` | every call that holds one mutex while it needs another | mutexes held over calls into other processes, callbacks that call back |
| Binder stubs (`jni/binder`) | none | marshalling | evaluation order of arguments |
| JNI glue, callbacks, Java API | global references | forwarding | application callbacks that call back in |
| `main` (`jni/server/IOT_Server.cpp`) | none | `addService`, then start of the IOT thread | published before it is ready |

How they interact. The library polls `getServiceStatus` until it answers `CONNECTED` (the IOT thread has
stored `m_shadow`), opens a session with `createClient`, posts its two lists, and registers its callbacks;
`registPropertyCB` links to the client's death and signals `m_condition`. The IOT thread, released by that
signal, registers all attributes with the SDK and loops: yield to the SDK (whose callbacks dispatch cloud
commands and property changes to the followers), poll the followers for values when the period is over,
push what changed. A client may also report a property on its own, which a binder thread pushes at once.
When a client dies its session is removed; when the server dies every client reconnects.

What makes each part correct:

* registry: a removed client is in no vector (but by a follow that was under way when it died); the count is bounded; a dispatch reaches whom it must;
  nobody waits for `m_lockClis` for ever; the first client gets the IOT thread going;
* shadow: no attribute is left unregistered; a change reaches the cloud or is still flagged; no report
  bit is hidden from the loop; the last value reported is the one the cloud shows;
* values: what was stored last shows; a follower that answered last is believed; the name of a command is the one that was sent;
* call chains: no circle of waiting calls, except where a callback calls back;
* library: whatever the threads do, the session in use is completely set up; follows come before
  callbacks; after a death of the server the client reconnects.

The hazards of the code, each at its line, are listed in `PROJECT.json`.

## 2. Modules

| Module | Models | Code |
|---|---|---|
| `IOTService` | registry, sessions, dispatches | `IOT_Service.cpp` |
| `FollowTable` | what the registry promises: members and a relation, no vectors, no mutex | (abstract) |
| `DeviceShadow` | attributes, flags, urgent and batch pushes, the loop | `IOT_DeviceShadow.cpp` |
| `IOTClientJNI` | one application process and its server's incarnations | `IOT_ClientJNI.cpp` |
| `Connection` | what the library promises: a session with a live server or none, complete or not yet; no threads, no lists | (abstract) |
| `ConnTries` | the number of tries of `connService`, with its theorems | `IOT_ClientJNI.cpp` |
| `ReportPeriod` | whether the loop polls, given the period and the time since, with its theorems | `IOT_DeviceShadow.cpp` |
| `CallChains` | who holds and who wants which mutex, across processes | all three |
| `PropertyValue` | one property: declared, polled, reported, stored | `IOT_Service.cpp`, `IOT_DeviceShadow.cpp`, `IIOTClient.cpp`, `IIOTPropertyCB.cpp` |
| `CommandParser` | the search for a command's name (operators only) | `IOT_DeviceShadow.cpp` |
| `ValuePaths` | composes the two: rounds, reports and messages of the cloud in any order | |
| `MC_*` | the finite sets given to the constants | |
| `*Proofs` | theorems and their proofs | |

The modules share no variables: each abstracts what another one details. The fate of a report bit is in
`DeviceShadow`, which value a round stores in `PropertyValue`; whom a dispatch calls is in `IOTService`,
what it holds meanwhile in `CallChains`; how long a client polls is in `ConnTries`, what it does then
in `IOTClientJNI`; when the loop polls is in `ReportPeriod`, what it does then in `DeviceShadow`.

### IOTService

A session is a client object and the binder thread that serves it: `pc[c]` is the next call the server
will see from `c`. `createClient` is two steps, because the count is read before the mutex is taken.
`registPropertyCB` is three: the unlocked store, `linkToDeath`, the signal. `Crash` may happen anywhere;
a call already in the server still runs to its end. The mutex is held over a step or, by a dispatch, over
one step per follower (`op # "none"`). `iot` is the IOT thread: `setup`, `ready` (shadow stored, not yet
waiting), `waiting`, `awake`. The first-client fallback and the empty vectors `removeClient` leaves
behind are there as in the code. `owed` and `called` are history variables for one property.

What registers a session (`registCommandCB`, `registPropertyCB`) comes once and in the order in which
`_postFollow` makes the calls; follows come at any time while the session is open, since other threads of the
client post theirs on the same session. A follow is one step, taken where it gets the mutex. When the
client dies, up to one property and one command (the mutexes of the library's lists let no more pass) are
in the server still: they are `late`, and run before or after `binderDied`. `stray` remembers them for
the properties.

`followProperty` is two steps: the follower (`FollowProperty`), then the attribute in the shadow's map (`AddProperty`;
`posting` holds the names in between, and a call that is refused stays there). Attributes are all that the IOT
thread asks for: with `added`, what the registry and the shadow share is in this module too.

`linkToDeath` on a process that is dead already may report the death or fail: the code looks at neither.

### DeviceShadow

`data`, `report`, `added` are the fields of `m_iotAttrs`. A polling round holds `m_lockAttrs`
(`iot = "polling"`), one step per attribute. A binder thread in `doReportProperty` makes one step for its
locked part, and one for each access that has no lock: the flag, the formatting, the push, and the
clearing of the bit. `pushProperties` is formatting (locked), push, clearing of one flag, clearing of
the other. `PropertyDelta` and `PeriodDelta` are the SDK's callbacks inside `IOT_Shadow_Yield`. `cloud` is
what the SDK has delivered; with `SdkMayFail` a push may fail before or after delivery, and set-up may
fail for good. `StatusPolled` says whether clients wait for `CONNECTED` before their first call, as the
library does; the server does not insist, and `shadow_reports` does without. `missed` remembers the
attributes of which a push failed, `overtaken` the ones an older value of which was delivered after the newest was written,
or whose report bit was cleared by the urgent push of an older one; both until the attribute is written again, and
`missed` until its report bit is cleared. `updateReportReriod` searches the map
without the mutex, so it may miss `report_period` while a binder thread may be inserting (`Inserting`). Values are abstract: `Zero` is
the value of fresh memory. `m_reportFlag` starts with either value, since the constructor does not set it.

### IOTClientJNI

Threads of the application and binder threads of the same process run the same `connService`; a binder
thread enters it from `serviceDied`. `service[t]` is the incarnation behind the handle thread `t` obtained
from `getService`; it is looked up once per `_connect`. Every use of `m_proxy` reads it anew, as the code does, and
a use of a null pointer ends the process (`crashed`), and what the server does after that is of no interest.
`m_listen` says whether there is an observer, `linked` of which incarnations it is to report the death: when another one
replaces it, or it is cleared, the former one is gone with its links. `serviceDied` is its four unlocked assignments, one
step each (`ClearProxy`, `ClearListen`, twice), then `connService`; whatever another thread has stored in between is lost.
The session of `Connection` is `m_proxy` while its server lives and the process has not crashed. The tearing of an `sp<>` that is assigned in one thread and copied in another is not
modelled. The server is external: incarnations boot, answer `CONNECTED`, die, and are restarted by init
(README of the repository, "IOT服务"). A server need not get as far as
`CONNECTED` (`setupShadow` may fail or try for ever), so the tries of any thread may run out (`OutOfTries`), those of
`serviceDied` too: it passes 6 000 000 ms, which after the overflow of the product still gives 17051 tries of a tenth of a
second at least (`ReconnectTries` of `ConnTries`). `followed` and `active` are what the server was told since
`createClient` was last called, the library calling through no other session. History variables: `listed`, `reported`
(deaths `serviceDied` was told of since `m_proxy` was last assigned), `gaveUp`.

### ConnTries, ReportPeriod

`timeout_ms * 1000 / USLEEP_TIME + 1` in 32-bit arithmetic. Signed overflow is undefined in C++; the
module takes the outcome of the builds at hand, a wrap-around. `updateReportReriod` takes the `int32_t` of the cloud
as a `uint32_t`, which C++ defines modulo 2^32; the loop compares it with a difference of `HAL_UptimeMs`, which is taken to
be a clock of 64 bits that never goes back. The numbers are beyond TLC's integers, so these modules have theorems and no run.

### CallChains

A binder call that comes back to a process that waits runs on the waiting thread, so what owns a mutex is a
chain of calls, not a thread: the IOT thread inside a callback of process `p` (`inside`) may run the client
library of `p`. A mutex that is taken and released with no other one and no call in between is a step that
needs it free; the others are acquired and released in steps of their own. `style` is what the callbacks
of a behaviour do before they return: nothing, or any of `reportEvent`, `reportProperty`, `followProperty`,
`followCommand` of the library.

### PropertyValue, CommandParser, ValuePaths

Strings are byte sequences in buffers of `Size` bytes; `Memcpy`, `Strncpy`, `Atoi`, `CString` are the
functions of C they are named after. A round of polling begins with a zero buffer, asks one follower per step
(`Ask`, or `NoCallback` when it has registered none), copies each reply over the earlier ones and compares at the end.
A dead follower's reply is not read, so the string of the one before it counts again (`Replies`). `order` is the
order in which the build evaluates the two `readInt32` that are arguments of one call. Any size may be declared; the
memory of an attribute is taken as a buffer longer than every value, so a value that overruns the size its client
declared is not modelled.
`CommandParser` treats the word `command` as one character. `Char` are the characters of which the cloud makes keys
and values, any but the quote that ends a string (`ParserAssumption`); the five marks of an object need not be among
them. A message is a sequence of one to three fields (`MessageAssumption`), which `Render` writes out as the cloud does;
the search runs over that. In `ValuePaths` messages of the cloud come between rounds, as inside `IOT_Shadow_Yield`.

## 3. Runs

| Run | Question | Bounds |
|---|---|---|
| `registry_safety` | Do vectors, sessions and dispatches stay consistent, and does the registry implement `FollowTable`? | 3 sessions, 1 property, no commands, limit 1, 2 threads in `createClient`, spurious wakeups; sessions symmetric |
| `registry_liveness` | Do calls end, are dead clients removed, does a signal wake? Are commands dispatched as soundly as properties? | 2 sessions, 1 command, no properties, limit 2 |
| `lost_wakeup` (violation) | "wait the first client create" | 2 sessions |
| `count_race` (violation) | "Client count beyond the max value" | 2 sessions, limit 1 |
| `no_fallback` (violation) | "if no following, just using the first client" | 2 sessions |
| `shadow_reports` | Is every attribute registered, does a change arrive, is no report bit stranded, is every one consumed, when the SDK fails? | 2 properties (one reported by clients) and `report_period`, 2 values, 1 binder thread, failing set-up and pushes |
| `urgent_overwritten` (violation) | "for urgent property report" | 1 property, 1 binder thread |
| `client_reconnect` | Does the library implement `Connection`, is the session in use completed, and is every death that is reported dealt with? | 1 + 1 threads, 1 property, 1 command, 8 sessions (no thread ever finds them used up), 2 deaths |
| `reconnect_lost` (violation) | "iot service die, call serviceDied for reconnect" | 1 + 1 threads, 2 deaths |
| `callback_early` (violation) | "must put it after proxy->followxxx()" | 2 application threads, no death |
| `locks` | Which calls can wait for each other in a circle, and does every call return otherwise? | 1 process with 2 threads, every set of calls a callback may make |
| `values` | Which answer is stored, what does a shorter string leave behind, which commands are found? | 3 followers, 2 kinds of byte, strings of up to 2 in buffers of 4, messages of up to 3 fields, names of up to 2 |

Why the bounds are enough to be interesting. Three sessions with a limit of one let the registry outgrow
the limit, empty a vector while another follower joins, and remove in the middle of a vector. Properties and
commands use the same code for their maps, so each has a run of its own rather than both in one. A binder
thread and the loop give every pair of writers of a flag (the proofs of section 5 cover any number of them). Three followers let an answer be longer, equal and shorter than two earlier ones, with a dead process in between; three
fields let a comma follow the command, and a value mislead the search before it. Two threads of a client are the least
that race, two deaths of the server the least for a death during a reconnection. The safety properties
are proved for all values (section 5). `MaxRestarts` and the size of `Session` only bound the runs.

`CHECK_DEADLOCK FALSE` is in the runs of `IOTService`, `IOTClientJNI` and `CallChains`: the IOT thread may wait for ever,
all clients may be dead, the client process may have crashed or have no session left to open, calls may
wait in a circle. The runs
of `DeviceShadow` and `ValuePaths` check for deadlock: their loops never stop.

### Fairness

* `IOTService`: binder threads and the IOT thread run, callbacks return (weak fairness of their steps).
  Steps that need `m_lockClis` have strong fairness: between dispatches the IOT thread sleeps in
  `IOT_Shadow_Yield` with the mutex free, so a waiting thread gets it. Clients owe nothing.
* `DeviceShadow`: a binder thread finishes its call (its later steps take no mutex) and the loop of
  `threadLoop` goes on. Calls, deltas and the first client need not come.
* `IOTClientJNI`: a thread in `connService` runs and gets the mutexes it waits for, which are held over a few calls
  to the server; a death that is observed is delivered; init restarts the server. The server need not get as far as
  `CONNECTED`, and the application owes nothing.
* `CallChains`: a thread that can go on does, and one that waits for a mutex gets it if it is free again and
  again (strong fairness): its holders make a few calls each, and the IOT thread sleeps between rounds.
  Callbacks return; nobody has to begin a call.

## 4. What the runs show to be wrong

1. `lost_wakeup`: `CONNECTED` is answered before the IOT thread waits, and the wait has no predicate
   (`IOT_Service.cpp:258`). The only client's signal can come too early; the server never enters its loop.
2. `count_race`: the client limit is tested outside the mutex (`IOT_Service.cpp:149`). By how much it can be
   exceeded is `ClientsBounded`, checked and proved.
3. `no_fallback`: an emptied follow vector stays in its map, and the fallback tests only for the entry
   (`IOT_Service.cpp:43`).
4. `urgent_overwritten`: a batch formatted before an urgent report and pushed after it restores the old
   value at the cloud, and no flag is left (`IOT_DeviceShadow.cpp:376`). `ValuesConverge` shows that a newest
   value is lost without a failure in two ways only: this one (another urgent push may be the older one too), and a bit cleared
   for an older value (`IOT_DeviceShadow.cpp:230`).
5. `reconnect_lost`: a server that dies while `serviceDied` polls it leaves a dead handle that is polled to
   the end of the tries; nobody reconnects (`IOT_ClientJNI.cpp:105`). Null pointers, lost observers and servers that do
   not connect are left aside.
6. `callback_early`: with two threads in `connService` one registers the callbacks on the other's session,
   before anything was posted there (`IOT_ClientJNI.cpp:89`).

The passing runs also show, in what their properties have to except, where the code is weaker than one might expect:

* failed pushes: a failed batch is not retried, and a report whose urgent push failed while the loop was about to
  clear `m_reportFlag` keeps its bit with both flags off until something else changes. `ValuesConverge`,
  `NoStrandedReport` and `ReportsConsumed` hold for everything that is not `missed`.
* an attribute nobody has written since the start (`calloc` in `ValuesConverge`): a first answer that equals zero
  is not a change, and is never pushed.
* late follows: what a client was about to follow when it died may be entered after `removeClient` has
  run. It stays in the vector for ever, and hides the first-client fallback (`stray` in `NoGhostFollower`).
* circular waits: a callback that reports a property while it is polled waits for the mutex its own caller
  holds, and one that calls the library may meet a thread of its own process that holds the mutex it wants
  and waits for one of the server's (`CircularWaitNeedsCallback` lists all the ways). Callbacks that
  only answer are safe.
* strings never get shorter (`LastStringShows`), and a string property whose attribute and polled buffer differ behind the
  last answer is flagged and pushed at every period for ever: because a longer value was stored once, or because in each
  round a follower gives a longer answer before the last one (`RepeatsOnlyForTail`).
* a command in the last field of a message is dropped unless its name has a comma (`Found` in `CommandAsSent`),
  and the word `command` as the value of a field misleads the search (`Plain`).
* in a build that evaluates arguments from the last one, a property's size is read as its type: a follow is refused, or
  with a size of 1 or 2 gets the type of that number. Which order a build has is not stated as a property.
* a timeout of 2148 s to 4294 s gives no try at all (`NoTry`).
* a negative report period stops polling for 24 to 50 days (`NegativePeriodWaits`).

`DeathsDealtWith` excuses three things the code does. A process may call through a null `m_proxy` (`crashed`): `reportProperty`
and `_postFollow` test `m_proxy` without the lock, and `serviceDied` clears it without the lock; in the same way
`linkToDeath` may be passed a null `m_listen`. `serviceDied` tries once (`gaveUp`): when the server dies meanwhile or does not
get as far as `CONNECTED`, nobody tries again. And nobody may be told of a death (`Unobserved`): another thread's observer
has replaced the linked one, the second half of a `serviceDied` has dropped the observer of a session opened meanwhile
(`IOT_ClientJNI.cpp:148`), or the server was dead before `linkToDeath`.

## 5. Proofs

All are for arbitrary constants satisfying the module's `ASSUME`.

* `IOTServiceProofs`. `IInv == TypeOK /\ NoDuplicates /\ SessionsRegistered /\ NoGhostFollower`. None of the
  parts is inductive alone: removal takes out one occurrence, so "no ghost" needs "no duplicates"; a
  client is appended only before it is in the vector, and follows only while it is or was when it died, which is
  what `SessionsRegistered` says: a session whose client lives and that is past `linkToDeath` is linked,
  and only linked sessions are removed, when they are dead. From it: `TypeCorrect`, `NoGhosts`, `VectorsInjective`,
  `SessionsStayRegistered`. `StartsAfterClient` follows the last call of a registration to the IOT thread's wait.
  `BoundedClients` adds that members and
  clients past the test together are at most `MAX_CLINETS + PoolThreads - 1` (a cardinality argument).
  `DispatchComplete` adds that while a dispatch runs the vector stands still (the mutex) and that the part already
  walked has been called. `RegistryRefinesTable` maps every step to a step of `FollowTable` or a stutter.
* `DeviceShadowProofs`. `SInv == TypeOK /\ AttrsInv /\ CallsInv /\ ValuesInv /\ ReportInv /\ NoMissedRegistration`.
  `ValuesInv` says, for each place the loop can be in, where the newest value of an attribute is (`Placed`: at the cloud, in the
  batch, flagged), or why it need be nowhere (`Excused`: missed, overtaken, without a shadow, or carried by a binder thread).
  The interleavings are in two facts: while the loop pushes, only bits of properties that clients report can be set, and
  a batch can only be out of date in those. `CallsInv` is about calls that begin before the shadow is there.
  `ReportInv` says who owes the flag of a report bit: a binder thread in its call, or the loop.
  From them: `AllRegistered`, `ValuesArrive`, `NoReportStranded`.
* `IOTClientJNIProofs`. `CInv == TypeOK /\ HostInv /\ ListedInv /\ PostInv`. `PostInv`: the session in use is complete, or
  some thread is on duty, and what it has posted and has still to post covers the lists as they were when the
  session was created. Another thread that replaces `m_proxy` takes the duty over, lists only grow
  (`ListedInv`), and a dead incarnation does not come back (`HostInv`). From it: `QuietSessionsComplete`.
  `LibraryRefinesConnection`: a step that leaves `m_proxy` alone finishes the session or stutters, since what the server
  knows only grows while it lives; the others open a session that was never used, of which the server knows nothing yet, or lose the one there was.
* `CallChainsProofs`. `ChInv == TypeOK /\ ProxyInv /\ ListInv /\ ServerInv /\ CallbackInv`: what the holder of
  each mutex is doing. An application thread holds mutexes of its own process only and, while it holds one, waits for
  the two of the server, which only the IOT thread holds over a call; so every circle goes through the IOT thread,
  which waits for somebody only inside a callback. From it: `ChainsTypeCorrect`, `CirclesNeedCallbacks`,
  `LeafCallbacks`, for any processes and threads.
* `ValuePathsProofs`. `PInv` joins to `TypeOK` what the bytes are: `BytesInv` (the string stored
  last, then what is left of longer ones, up to the longest), `RoundInv` (the same of the buffer of a round) and
  `PreviousInv` (what the last round left in the attribute). From it: `StringsNeverShrink`, `LastAnswerShown` (a string whatever was
  answered before it, a number if nothing before it was longer), `OnlyTailsRepeat` (by `EqualStrings`: two buffers with the
  same first bytes hold the same string exactly when they agree behind them); `PathsHaveValues` carries them over to the composition with commands.
* `CommandParserProofs`. `NameFits`: any name found in any message is shorter than the buffer and has no quote in
  it. `LeastIs` (a nonempty set of positions has a least element, by well-foundedness) gives what
  `strchr` finds; `Between` that nothing it stopped at lies between two finds.
  `CommandFound` is about an object with any number of fields, seen as the field with the key, what is before it and what
  is behind it: `ConcatFinds` says that joining sequences adds no place to find the quoted word, because what is joined on
  begins with a mark; so `strstr` stops at that key (`StrstrOnly`, `WordFound`). `StringFound` and `NumberSkipped` follow the
  other four searches from its colon on. `MessageHeard` cuts a message of up to three fields at the one with the key, and
  `CommandsAsSent` (in `ValuePathsProofs`) carries it to `CommandAsSent` for any set of messages over any characters.
* `ConnTries`. `TriesAsAsked`, `ReconnectTries`, `NoTry`: how many tries a timeout gives.
* `ReportPeriod`. `PeriodAsAsked`, `NegativePeriodWaits`: the period as an unsigned number. A negative one from the cloud
  puts polling off for 24 to 50 days.

Only model-checked: all liveness properties (fairness and `ENABLED` are out of the prover's reach) and the
violations. No recursive operator is used; what a recursive definition computes for every input (`Atoi`) would
need induction over data, which the prover cannot do here, so the proofs take `Atoi` as a function they know
nothing of.

## 6. Not modelled

* Forwarding without state: the field-by-field marshalling of `jni/binder`, the JNI functions, the Java class,
  Java exceptions in callbacks, `reportEvent`. What marshalling adds to a call is in the modules of its callers.
* The cloud SDK beyond what its callers rely on: it delivers what was formatted earlier or fails, and calls
  back inside `IOT_Shadow_Yield`.
* Time in the report loop: an iteration of `DeviceShadow` polls or does not; `ReportPeriod` says which, given the time.
* Restarts of the server in `DeviceShadow`: each incarnation starts from nothing and `NoValue` stands for what
  the cloud had before.
* Values that overrun the size their client declared, and the tearing of an `sp<>` that two threads use.
* `init` of the library (replaces the callback objects), `postShadow` and the destructors (never run), build files.
