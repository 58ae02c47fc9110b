# A TLA+ model of cc_ChatServer

cc_ChatServer is a cluster of chat servers: several `ChatServer` processes behind
nginx, one MySQL database, one Redis, and a console client. This project models
the parts of it in which several threads or processes work on the same state,
checks them with TLC on small instances, and proves with TLAPS, for instances of every
size, what it states of the safety of the sessions, the delivery of messages, the tables,
the client and its lists, and of the pointers of the JSON parser. It also models the part of the
vendored JSON library that has an algorithm to get wrong: the parser, the five binary
formats, and pointers and patches.

## 1. Inventory

| component | code | state | operations |
|---|---|---|---|
| network layer | `ChatServer.cpp`, cc_muduo (external) | connections, each bound to one of 4 loop threads | `onConnection`, `onMessage` (parse, dispatch by `msgid`) |
| sessions, presence | `ChatService::login`, `loginout`, `clientCloseException`, `reset`; `UserModel.cpp`; `main.cpp` | `_userConnMap` under `_connMutex`, column `User.state`, Redis subscriptions | log in, log out, connection lost, SIGINT |
| message delivery | `oneChat`, `groupChat`, `addFriend`, `handleRedisSubscribeMessage`, the end of `login`; `OfflineMessageModel.cpp` | table `OfflineMessage`, what Redis has pushed | send to the map, publish, store, forward, read and delete at login |
| friends and groups | `addFriend`, `createGroup`, `addGroup`, `removeGroup`, `SearchGroupData`; `FriendModel.cpp`, `GroupModel.cpp` | tables `Friend`, `AllGroup`, `GroupUser` | insert and delete rows |
| Redis client | `redis.cpp` | two hiredis contexts, one observer thread | `publish`, `subscribe`, `unsubscribe`, observe |
| MySQL wrapper | `db/mysql.cpp` | none between calls (a connection per call) | `connect`, `update`, `query` |
| registration | `ChatService::reg` | rows of `User` | one INSERT |
| client | `src/client/main.cpp` | current user, friend and group lists; a menu thread and a reader thread on one socket | menus, replies |
| JSON library | `thirdparty/json.hpp`, vendored | while parsing: the stacks of `sax_parse_internal` and of the DOM parser; else values only | parse (with or without a callback), dump; CBOR, MessagePack, UBJSON, BJData, BSON; pointers, flatten, patch, diff, merge_patch |

How they interact. A handler runs in the loop thread of its connection; handlers
of one connection never overlap, those of different connections do, in one
process (sharing `_userConnMap`, the mutex and the Redis contexts) and across
processes (sharing MySQL and Redis). Login leaves three traces that everybody
else relies on: the state column, the map entry of the process the client is
connected to, and the subscription of that process to the user's channel. A
sender looks in its own map, then in the state column, and chooses between a
direct send, a PUBLISH and a row of `OfflineMessage`. The observer thread of the
receiving process looks in its map again.

What is hard: none of this is transactional. The handlers write the three traces
one after the other, in different orders at login, logout and close; the mutex
covers only the map; SUBSCRIBE is asynchronous; processes die. For each component
the correctness conditions are

- sessions: an entry of the map is a live session of its user, unless several users logged in on the
  connection; the three traces agree when nothing went wrong, and a session that ends takes all three along;
- delivery: a message is delivered or stored, once; the decision how to send it
  is still right when it is carried out;
- friends and groups: friendship is mutual, a group has one creator, members are
  members of something that exists;
- client: what the client believes about who is logged in is what the server has,
  and a call that waits for an answer takes its own; what its lists show is in the tables;
- the wire: a text is taken for what was sent, wherever TCP cuts the stream;
- JSON library: the parser's unchecked pointers point to what they should; what is written in a
  format is read back; a patch made from two documents turns one into the other.

`PROJECT.json` lists the hazards one by one, each at its line.

## 2. Modules

    Sessions                who is online, and where
      SessionsProofs        EXTENDS Sessions: its invariants; Sessions implements Whereabouts
      Delivery              EXTENDS Sessions: what becomes of a message
        DeliveryProofs      EXTENDS SessionsProofs: Delivery implements Sessions and Mailbox; its invariants
    Whereabouts             abstract: where one user is; implemented by Sessions
    Mailbox                 abstract: where one message is; implemented by Delivery
    Groups                  friends and groups; shares no table with the above
      GroupsProofs          EXTENDS Groups
      Lists                 EXTENDS Groups: the lists a client shows, and the answer of login
        ListsProofs         EXTENDS GroupsProofs: Lists implements Groups; what the lists hold
    Client                  one client, its connection, and the server's side of it
      ClientProofs          EXTENDS Client
    StreamLemmas            what a read takes of a stream and a send adds; for ListsProofs and ClientProofs

    JsonParser              tokens to a value: sax_parse_internal and the DOM parser
      JsonFilter            EXTENDS JsonParser: the parser with a callback
        JsonProofs          EXTENDS JsonFilter: both parsers' pointers hold; a filtered text is what was kept
    JsonLexer               bytes to tokens
      JsonSerializer        EXTENDS JsonLexer: a value to bytes
    Wire                    EXTENDS JsonParser, JsonSerializer: a sender, TCP, and a receiver that parses
    Framing                 abstract: what a receiver makes of a stream; implemented by Wire
      FramingProofs         EXTENDS Framing: texts are taken once and in order
    BinaryFormat            numbers of 64 bits, JSON values, reading and writing in general
      Cbor, MessagePack, Ubjson, Bson
        Conversions         EXTENDS all four: a value is written, maybe damaged, and read
      JsonPointer           a pointer and its four walks, flatten and unflatten
        JsonPatch           operations of a patch, diff, merge_patch, ==
          JsonDocument      one document under every sequence of operations

    MCSessions, MCDelivery, MCGroups, MCLists, MCClient   instances for TLC, one .cfg per run
    MCWire, MCConv, MCDocument                            the inputs of the JSON modules
      MCJson                                              EXTENDS these and JsonFilter: their run

### Sessions

One action per call that other threads or processes can observe. A handler that
starts with a query starts with the step of that query.

| TLA+ | code |
|---|---|
| `userState` | column `state` of table `User` |
| `userConnMap[s]` | `_userConnMap` of process `s` |
| `home`, `alive` | which process serves a connection slot; whether its client is still there |
| `pc`, `user` | the next call of the handler that runs for the connection; the id it works for |
| `subPipe[s]`, `subs[s]` | (UN)SUBSCRIBE commands in the socket to Redis; what Redis has executed |
| `observing[s]` | `_subcribe_context` works and the thread of `observer_channel_message` runs |
| `resetting` | the next call of the SIGINT handler of a process |
| `LoginQuery`, `LoginInsert`, `LoginSubscribe`, `LoginSetOnline`, `LoginReply` | `login`, lines 61–146 |
| `LogoutSetOffline`, `LogoutErase`, `LogoutUnsubscribe` | `loginout` |
| `CloseErase` (`CloseFound`, `CloseNotFound`), `CloseUnsubscribe` (`CloseGoesOn`), `CloseSetOffline` | `clientCloseException`: the scan of the map, the UNSUBSCRIBE (of channel 0 if nobody was found), the UPDATE (if somebody was) |
| `ResetState`, `ResetClear`, `ResetExit` | `resetHandler`, `reset`, `resetState`: the UPDATE, the loop over the map, `exit(0)` |
| `Crash` | the process dies and is started again |
| `ObserverEnds` | the connection to Redis breaks: the loop ends and nothing starts it again |
| `Connect`, `ClientCloses`, `RedisExecutes` | nginx and the client, the client, Redis |

`disturbed`, `misrouted` and `shared` are history variables. A connection is *shared* once a user
logged in on it while it held the session or a map entry of another one. A user is *disturbed* once two
sessions of the user overlapped, the user shared a connection, a process that served the user was
killed or reset, or an UPDATE of the user failed; *misrouted* once a command to Redis was lost or a login found a
subscription left over from an earlier session. The code cannot keep the traces consistent in these
cases, and the properties say what it does promise to everyone else. They are
written only where such a thing happens and are read by no guard.

`Faults` says what may go wrong in an instance: a process dies (`"crash"`), gets SIGINT
(`"reset"`), two threads use the unlocked Redis context at once (`"race"`: a command is lost,
or the connection or the process ends), a connection to Redis breaks (`"link"`), a statement
fails (`"database"`: `updateState` returns nothing, and every handler goes on as if it had
been executed).

Decisions. A refused login sends a reply and changes nothing (a stuttering step). `login` asks the state
column and nothing else, so `LoginQuery` is open to a connection that serves somebody already; the
shipped client does that after a logout that `onMessage` dropped (see Client). The close handler then
meets several entries of its connection and erases the first; the others stay behind. A
close callback that finds no entry goes on for user 0: its UNSUBSCRIBE of channel 0 is a write like any other,
which may block, race or fail. Connection slots are reused as soon as no map keeps the old connection (the
maps hold shared pointers), for any process. The close callback runs after the handler that was running. SIGINT is handled by the main
thread while the loop threads go on, hence three steps for `reset()`.

### Whereabouts

What a sender may rely on about a user, without connections and handlers: the state that is shown
and the processes that have the user in their map. A user is away, passing (coming in or logging
out), here, or closing, and changes process only by being away in between; a disturbed user is
"void". `Sessions!IsWhereabouts` says that Sessions implements it, with `SeenOf(u)` as the
refinement mapping; it is checked in `sessions_safety` and proved in `SessionsProofs`.

### Delivery

Adds the mutex (`connMutex`), the chat handlers (`step`, `message`, `todo`,
`target`), the two reads at the end of a login (`rows`), the table `offlineMsg`, the
pushes `feed` and two histories: `posted`, and `handed`, how often a message was given
to `send()` on a connection whose client is there. `ChatStart`, `ChatLookup`,
`ChatPublish`, `ChatStore` are `oneChat`, `groupChat` and `addFriend` for one receiver after
another (`addFriend` never publishes). `Observed` is the observer's filter of what it reads: a push with a text
goes to the queue, a reply to a (UN)SUBSCRIBE (`RedisReplies`) has none (`HasText`) and goes nowhere. `ObserverHandle` is
`handleRedisSubscribeMessage`; `OfflineQuery`, `OfflineRemove`, `OfflineReply` refine
`LoginReply`; `LockedStep` and `UnlockedStep` are the actions of Sessions with and
without the mutex. A handler takes the mutex with its first read under it: until
then it has touched nothing, and from then on it excludes the rest of its process.

Faults: `publishing[s]` becomes false when the connection for PUBLISH breaks (`PublishBreaks`), and
`publish` then returns false, which no handler looks at; `FeedBreaks` is `ObserverEnds` with a part
of the pushes lost; an INSERT or DELETE that fails changes nothing (`resent` remembers the users
whose rows a failed DELETE kept, who get them again), a query that fails finds no rows, or a user
who is offline (`MayReadOffline`).

### Mailbox

For every pair of a message and a receiver one place: unsent, underway, delivered, stored or lost; and for
every receiver whether a login has fetched the store and not cleared it yet. While nothing of the
sort happens messages `Travel`, and none leaves the store; a fetch takes the whole store underway, a
clearing loses what was stored since the fetch. Delivered and lost are final. `Delivery!IsMailbox` says that
Delivery implements it, `Fetching` being the time between the query for the offline messages and their
DELETE, for receivers whose sessions were neither disturbed nor misrouted and whose rows were
deleted; for the others the promise ends, for good and for all of their messages together. A second copy of a message anywhere has no image (`"doubled"` is no place).

### Groups

One action per SQL statement that writes. Any statement may fail (`MayFail`, or a row that
is already there): the code ignores the result of all but the INSERT into
`AllGroup`. The schema is not in the repository; the model assumes an AUTO_INCREMENT id
and that inserting a row twice leaves one row. GROUP_CHAT_OUT_MSG, which by its name and
its comment takes a member out, is bound to `groupChat` and writes no table, so no
action of Groups stands for it; members leave through `removeGroup` alone.

### Lists

The lists of friends and groups that a client shows and lets the user choose from, beside the tables.

| TLA+ | code |
|---|---|
| `menu`, `typed` | where the main thread is; the id typed for the call that waits |
| `current`, `friendList`, `groupList` | `current_User`, `current_Friend`, `current_Group` |
| `reader`, `requests`, `replies` | as in Client |
| `served` | the users logged in through this connection |
| `login` | the answer that `ChatService::login` is putting together, between its queries |
| `refused` | history: what `current_User` asked for that was dropped, refused or not stored |
| `MenuAsks`, `Join`, `Loginout` | the command handlers; the second half of `addGroup`; `loginout` |
| `MenuReceives`, `ReaderReceives` | every `recv` of the main thread (`TakesSuccess`, `TakesRefusal`, `Throws`); `readTaskHandler` |
| `OnMessage`, `ServerRows` | the handlers of this connection, one statement at a time, with their answers |
| `LoginQueries`, `LoginAnswer` | `FriendModel::query`, `queryUserGroups` (one query for the groups, one more per group), the reply |
| `Elsewhere` | the handlers of users who are logged in with another client |

The lists are sets although the client does not keep an id from being pushed twice, since
nothing here depends on the order. Chats, registration and pushed messages are left out: they
change neither a list nor a table. Nobody asks to befriend himself, which is
a bound. A client that gets a text it cannot use ends (`"over"`), so
the run may stop.

### Client

Sessions takes logins and logouts as they arrive, one request per read. Client shows in which order
the shipped client sends them and what the framing makes of that, up to a connection on which
a second user logs in since the logout of the first was dropped (`stale`), which is the shared
connection of Sessions. It follows one client, its connection and the
part of the server that the connection sees.

| TLA+ | code |
|---|---|
| `menu` | where the main thread is: in a menu, or in `recv` for the answer to a request |
| `current`, `reader` | `current_User`; whether `readTaskHandler` was started (`is_first`) |
| `requests`, `replies` | the two directions of the socket, as sequences of texts |
| `connected`, `serving`, `served` | the server has the connection; the user whose `login` has written map and state but has not answered; the users online through it |
| `stale` | users whom the close of an earlier connection left online |
| `swallowed` | history: users whose login answer or logout nobody took in |
| `StartMenu`, `Ask`, `Chat`, `Join`, `Loginout`, `ClientEnds` | `main`, `mainMenu` and the command handlers |
| `MenuReceives`, `ReaderReceives` | every `recv` of the main thread; `readTaskHandler` |
| `OnMessage`, `LoginAnswer`, `Push`, `ServerCloses` | `onMessage` and the handlers as this connection sees them; a message passed on by another thread; `clientCloseException` |

A request ends with a NUL (the client sends `strlen + 1` bytes). `onMessage` parses all
that has arrived as one text; json.hpp takes the NUL for the end of the input, so the
requests behind the first one in a read are dropped without an error. The server's texts
carry no NUL: two in one read are no JSON; in the main thread that is an uncaught exception
and ends the process, in the reader thread the read is dropped. The two threads
of the client read the same socket, so either may take what the other waits for; a
main-thread call takes any text for its answer and looks only at the fields it needs
(`HasFields`). Assumed: texts are not split between reads (Wire has what
happens when they are), `send` succeeds while the connection is up, and the users of this
client log in nowhere else (Sessions has what happens when they do).

### JsonParser, JsonLexer, JsonSerializer, Wire, Framing

JsonParser is the loop of `sax_parse_internal` with its stack `states`, and `json_sax_dom_parser`
behind it. The DOM parser keeps raw pointers into the value it builds, `ref_stack` and
`object_element`; a pointer is modelled by the path from the root to the element. JsonLexer has one
operator per function of the lexer, over bytes, JsonSerializer those of `dump`, with the two UTF-8
checks that share no code: the ranges of `scan_string` and the automaton of `decode`.

Wire puts them between a sender and a receiver: a text is sent (by the client with its NUL), TCP hands
over any part of what is under way, and `onMessage`, a menu of the client (reads of at most `Limit` bytes)
or `readTaskHandler` parses the part. What comes of it is module Framing, which knows lengths
and no bytes: `onMessage` takes a read that begins with a whole request for that request and drops the
rest; a menu takes a read that is one answer; any other read ends the process; the reader thread
leaves such a read out, unless it begins inside an answer and the part is a JSON value
without the field. `Wire!IsFraming` is the refinement.

JsonFilter is the parser with a callback that is asked about every element
(`json_sax_dom_callback_parser`): each action is one SAX call with an answer of the callback. Beside the
pointers it keeps `wanted`, the value put together without pointers, and the
two must agree (`FilterIsExact`). `FilterPointersHold` is what its JSON_ASSERTs and unchecked uses of
`ref_stack`, `keep_stack`, `key_keep_stack` and `object_element` count on.

### BinaryFormat, Cbor, MessagePack, Ubjson, Bson, Conversions

One operator per writer or reader of `binary_writer` and `binary_reader`, over bytes. A 64-bit number is
its eight bytes and a double the bytes of its bits, so every width is exact; doubles are narrowed to
`float` and widened by their bits. Conversions writes a value, reads it from all of the bytes, from a
part, with a byte behind them, or with one of them changed, and writes and reads again what came of
changed bytes. The options are those of the library: counts, types, BJData draft 3, what CBOR does
with tags.

### JsonPointer, JsonPatch, JsonDocument

The text of a pointer and its tokens, the walks of `get_checked`, `get_unchecked`, `contains` and
`get_and_create`, `flatten` and `unflatten`; the operations of `patch_inplace`, `diff` and
`merge_patch`. JsonDocument holds one document and applies any operation to it, again and again, up to
`MaxNodes` values.

## 3. Runs

| run | instance | checks |
|---|---|---|
| `sessions_safety` | 2 processes, 2 users, 2 connections that both users may log in on, crashes, broken links and failing UPDATEs; 1.6 million states up to symmetry. SIGINT and the race are in `sessions_live` and in the proofs | `TypeOK`, `MapEntryOwned`, `PresenceAgrees`, `SubscriptionAgrees`, `IsWhereabouts` |
| `sessions_live` | 1 process, all five faults; 2 users who share a connection, and a second connection that one of them logs in on as well (`ShareOrOverlap`) | `ClosedIsReleased`, `AbandonedGoesOffline` |
| `delivery_safety` | 2 processes, sender and receiver; a chat message and a friend request; SIGINT; 1.2 million states | `DTypeOK`, `DecisionStillHolds`, `LossOnlyInWindows`, `IsMailbox` |
| `delivery_live` | the same with a group message to the receiver and an absent member, crashes, broken links and failing statements | `TransitEnds`, `NoDuplicates`, `LossOnlyInWindows`, `IsMailbox` |
| `groups_lists` | 2 users who share a client and have others too, 1 group, failing statements; 3.8 million states up to symmetry | `LTypeOK`, `FriendsAreStored`, `GroupsAreStored`, `MembersShownAreRight`, `GTypeOK`, `CreatorIsUnique`, `FriendshipIsMutual` |
| `client_threads` | 2 users of one client, 2 requests and 3 replies under way; 0.73 million states | `CTypeOK`, `LoggedInIsServed`, `ServedIsKnown`, `InTurns`, `FirstAnswerComes` |
| `json_library` | the four uses of json.hpp side by side: two texts on a wire, a filtered text, conversions, a document; 0.7 million states | `IsFraming`, `LexerAgreesWithDecode`, `PointersHold`; `FilterIsExact`, `FilterPointersHold`; `RoundTrip`, `EndIsFound`, `SizesAgree`; `PatchRestores`, `UnflattenKeeps`, `PointersAgree`, `MergeIsFinal` |

What they show. A connection found in a map is served by that process and the user's own, unless several
users logged in on it; a user whose sessions did not overlap and shared no connection has traces that
agree, and moves as Whereabouts says. A message is lost only in the windows that
`LossOnlyInWindows` names, is not doubled (but see the observations), and no handler or feed
keeps it. Whoever shares a client and whichever answer it takes for another, its lists hold
what the tables hold, up to what is under way or came to nothing. On the wire a text is never
taken for another, and every other read is the end of a process: the protocol needs
each text to arrive in a read of its own.

Five runs show that the code does not do what a document or a message of its own
says; the reader finds the shortest trace with TLC.

| run | violated | what happens |
|---|---|---|
| `sessions_repeated` | `NoRepeatedLogin` | both logins of a user read `offline` before either writes `online` |
| `sessions_failover` | `FailoverReadmits` | after a crash its users stay `online` and are refused for ever |
| `delivery_reliable` | `MessagesAreReliable` | the receiver is online before Redis has executed the SUBSCRIBE; PUBLISH reaches nobody |
| `groups_orphan` | `MembersHaveGroup` | `addGroup` reports a missing group and inserts the member |
| `client_mixed` | `WaitIsAnswered` | the reader thread takes the answer the menu thread waits for |

Bounds, and why they are enough. Two connections are needed for every overlap of two
sessions and for reuse of a slot; two processes for everything that crosses a
process; a third party adds no new pair of steps, since handlers interact only through
one row, one map or one channel. In `sessions_safety` a behaviour is followed
until all users are disturbed and one of them misrouted (`SomethingPromised`), after which the properties
promise only the types and the entries, for which the proofs have no bound.
In `sessions_live` the second connection is open only while one user alone has left a trace (`ShareOrOverlap`), so
that sessions overlap on two connections or users share one; the bound holds up clients and no handler. `PipeMax = 1` already separates sending a command from
its execution and makes writers block; the proofs cover larger values. In
`delivery_*` the sender is logged in from the start (`MCInit`, a state the system
reaches) and stays, and only the receiver logs in and out; each message is sent once, only
the connection for PUBLISH of the sender's process breaks (`OthersDoNotPublish`: no other process
publishes), and a row whose DELETE fails is handed over at most `MaxHanded = 2` times. `delivery_safety`
has the two kinds of a single receiver, `oneChat` and `addFriend`, and `delivery_live` the group message, which goes
through everything `oneChat` does, for one receiver after another.
`MaxGroup = 2` in `groups_orphan` gives an id that does not exist yet and later does; in
`groups_lists` it is 1, where the second `createGroup` fails; the theorems hold for any number. In `client_*` two requests in one read are enough to drop one, three texts to the
client are the two of `addGroup` and one more, and two users are needed for the entry that
`clientCloseException` misses and for a logout that could hit the session of another user.
`groups_lists` has three of each, so that a request of every kind can be behind another.

In `json_library` the buffer of the client has `Limit = 24` bytes instead of 1024, so that one text
fits, two do not, and one is longer; two texts (`MaxTexts`) are what a read can join; strings are
ASCII, what a user types, every width of UTF-8 and two bytes of GBK, and of `Borders`, the first and last
byte of every range in the two UTF-8 checks, all sequences of up to four. `ensure_ascii` stands for
other programs that write JSON with escapes. The values converted stand at every border of a width: 23/24,
31/32, 2^7, 2^8, 2^15, 2^16, 2^31, 2^32, 2^63 for numbers, up to 65536 for the length of strings and
binaries, up to 40 for the number of elements (the wider counts are written by the code for lengths);
texts of at most `MaxDamaged = 24` bytes are damaged at each position.
Documents have keys that are positions, that need escapes, or are empty, and an array of 12 elements, in
whose paths 10 comes before 2; they grow to `MaxNodes = 2` values besides the first ones. A
filtered text has up to `MaxEvents = 7` calls: two containers, their ends, and three keys or values.
In UBJSON an element of type
true, false or null takes no bytes, so a changed byte can make a count of millions; texts with more than
`MaxWeightless = 100` such elements are not read.

Symmetry is used in `sessions_safety` and `groups_lists`, which have no liveness property, over sets no
expression distinguishes.

Fairness. A handler that has started goes on (WF): loop threads do not stop and MySQL
and Redis answer. Redis reads its sockets (WF), and a process in `reset()` gets to
`exit` (WF). Client and server read what arrives and answer (WF of `MenuReceives`,
`OnMessage`, `LoginAnswer`); nobody has to type. Threads blocked in `write()` on the full Redis socket get their turn (SF):
the kernel wakes them in the order they wait. Nobody has to connect, log in, log out, send,
close or crash. Weak fairness is enough for the mutex in `delivery_live` because every
message is sent once, so the mutex is in the end free for good; with endless traffic
`std::mutex` promises no fairness and neither does the model.

## 4. Proofs

For every number of processes, users, connections, messages and groups, every `PipeMax`, streams of any
length and every set of faults, from the assumptions about the constants: the null values are outside
their sets, `PipeMax`, `MaxGroup` and the bounds of the streams are positive, a message has receivers.

| module | theorem | states |
|---|---|---|
| `SessionsProofs` | `TypesHold` | `Spec => []TypeOK` |
| | `EntriesOwned` | `Spec => []MapEntryOwned` |
| | `PresenceHolds` | `Spec => []PresenceAgrees` |
| | `SubscriptionsHold` | `Spec => []SubscriptionAgrees` |
| | `WhereaboutsImplemented` | `Spec => IsWhereabouts` |
| `DeliveryProofs` | `DeliveryRefines` | `DSpec => Spec`: sending messages adds nothing to the sessions |
| | `DeliveryEntriesOwned`, `DeliveryPresence` | what follows for Delivery |
| | `DTypesHold` | `DSpec => []DTypeOK` |
| | `DecisionsHold` | `DSpec => []DecisionStillHolds` |
| | `NoMessageDoubled` | `DSpec => []NoDuplicates` |
| | `LossesExplained` | `DSpec => LossOnlyInWindows`, an action property |
| | `MailboxImplemented` | `DSpec => IsMailbox` |
| `JsonProofs` | `ParserPointers` | `ParserSpec => []PointersHold`, for every input |
| | `FilterKeepsExactly` | `FilterSpec => []FilterIsExact`, for every text and every answer |
| | `FilterPointers` | `FilterSpec => []FilterPointersHold` |
| `FramingProofs` | `TakenOnce` | texts are taken once, in order, as sent, if lengths are numbers |
| `GroupsProofs` | `GTypesHold` | `GSpec => []GTypeOK` |
| | `CreatorHolds` | `GSpec => []CreatorIsUnique` |
| | `FriendshipHolds` | `GSpec => []FriendshipIsMutual` |
| `ListsProofs` | `ListsAreGroups` | `LSpec => GSpec`: a client and its lists add nothing to the tables |
| | `TablesBesideLists` | so `LSpec => [](CreatorIsUnique /\ FriendshipIsMutual)` |
| | `ListsTypes` | `LSpec => []LTypeOK` |
| | `MembersAreRight` | `LSpec => []MembersShownAreRight` |
| | `FriendsOnList` | `LSpec => []FriendsAreStored` |
| | `GroupsOnList` | `LSpec => []GroupsAreStored` |
| `ClientProofs` | `ClientTypes` | `CSpec => []CTypeOK` |
| | `ClientIsServed` | `CSpec => []LoggedInIsServed` |
| | `ServerIsKnown` | `CSpec => []ServedIsKnown` |
| | `TurnsAreTaken` | `CSpec => []InTurns` |

Sessions. One inductive invariant,

    IInv == /\ TypeOK /\ Placed /\ MapEntryOwned /\ SharedAreDisturbed
            /\ \A u \in User \ disturbed : Presence(u)

`MapEntryOwned` says that an entry holds a connection that its process serves for that user, and of a
shared connection only that no other process serves it, as the close handler leaves entries of such a connection
behind. What it lacks to be inductive is `Placed`: a slot without a process has no handler and no
session. An undisturbed user has to be kept clear of the shared connections: `SharedAreDisturbed` says that whoever
has an entry or a session there is disturbed, and `OwnEntries(u)`, a part of `Presence(u)`, that
each entry of an undisturbed user is a connection in the phases of that user's session. `PresenceAgrees` talks about sessions that are established or absent, and says
nothing of the phases between them; `Presence(u)` adds that an undisturbed user has at most one
session, and what the state column and the maps are in *each* phase of it. With that, every
action of a session determines the next phase, and an action of another user changes nothing.
The step lemma has one case per action.

Subscriptions. `SInv` adds to `IInv`, for every user neither disturbed nor misrouted,
`Subscribed(u)`: what the last command under way to Redis is in each phase of the session
(`Silent`, `Begun`, `Ending`). The lemmas about a pipe say what appending a command and
executing its head do to the last pending command of a channel.

Whereabouts. `IInv` determines `SeenOf(u)` in each phase of the one session of an undisturbed
user, so each action is a move of that user or none.

Delivery. Each step of Delivery is a step of Sessions or leaves its variables alone, so the theorems about
Sessions carry over. `DInv` adds `Handling`: a handler between the lookup and the PUBLISH or
INSERT runs on a connection that has a process and is in phase `"idle"`, so its process stays; the
mutex it holds excludes the steps that insert into the map of that process.

Messages. The properties count copies; the invariant `MInv` says instead, for each message and receiver,
which places exclude each other (`ItemInv`): one handler carries a message, a copy that a handler or
Redis has is the only one, and a message is in the table and in a login at once only until the rows are
deleted. It needs `SInv` (Redis pushes to one process at most) and `Presence` (one login reads the rows).
For each action one lemma, `...Explained`, shows three things: `ItemInv` is kept; the message moves only
forward (`Moved`); and if its last copy goes, the step is one of the windows. The cardinalities follow from
`ItemInv` in `CountsHold`, and from `ItemInv` and `Moved` the refinement. A step of Mailbox has a guard that
`Moved` does not have: the store empties only where a login of the receiver fetches or clears. So each
action is one of four for a receiver: it begins no login and ends none, and then takes no row away (`StoreKept`); or
it is the fetch (`PlaceFetched`), the clearing (`PlaceCleared`), or the end of the promise (`PlaceForgotten`).

JsonParser. The pointers are paths; `PInv` is `PointersHold` with the types. The lengths of the paths
order the containers that are open: an element that is added or assigned is below the innermost one, so
it changes none of the containers on the stack, and the pointer to a member is to one of the innermost object.

JsonFilter. The value is one function from paths to nodes that pointers change in place; `wanted` has one
tree for each open container. `FilterNested` relates them at every level: the value *shows* each tree at the pointer
of its container (`Shows`), but for a hole where the next container is under construction; the pointers
nest as the containers do, and are null from the first level on that is not kept (`Chain`, `Nest`); the
answers on `keep_stack` and `key_keep_stack` are those of the open elements (`Frames`, `Member`). `Loose` is needed
for the loop of `end_object`, which erases the first discarded member it finds, not necessarily the one that
was just rejected: every discarded value is a leaf and a member of an object, so nothing that is kept goes with it. Lemma
`Settled` says that a step that changes the value inside one container keeps all of this for the
others; what remains is a lemma per SAX call about the tree of that container. `FilterInv` is
`FilterNested` inside the text, `FilterInit` before it and `FilterIsExact` behind it. No induction over the depth is
needed, as each level is related to the value by itself.

Framing. `FInv` adds that whatever was taken began before the part that is read now.

Groups. `GInv` says which ids were given out and what a handler between two statements still
owes (`HandlerReady`); a group without its creator row is one whose handler is about to write
it, or whose INSERT failed. `FInv` adds that a one-sided friendship is one whose second
INSERT is next, or failed.

Streams. A read takes the first texts of a stream and a send puts texts behind it. `Has(q, A)` and
`Before(q, A, B)` say which kinds of texts are in a stream and in which order; the lemmas say what reads
and sends do to both, and the proofs about Client and Lists use nothing else of sequences.

Client. `CInv` says for every user which texts, handlers or menus entitle the client to a session: the
success of a login, a login that is being answered, `current_User`, or a logout. There is at most
one of them (`OneClaim`), which the user's session follows; where it is gone, a read has swallowed it.
`Turn` lists what is under way before the first login, one text at a time.

Lists. First `LInv`: the types, and with them that each step is one of Groups or none, so `FInv` holds here
too. The rest is on top of it, each part inductive relative to the ones before:

- `Right`: every user has one claim to a session of this connection, as in Client, so that rows found for a
  login that is still to be answered or shown are not deleted (only a user who is not logged in here can
  leave a group elsewhere), and what login found is in the tables until it is shown;
- `Friends`: what is on the list, and what `addFriend` waits for, has a row, a request behind the others, a
  handler that is to write it, or was refused; this holds before any answer, so it does not
  matter whose answer the menu takes;
- for the groups it does matter, as `createGroup` takes the id from an answer. `Order` says that nothing about
  groups is under way behind a login that is still to be shown: the server answers in order, and the client
  leaves the two menus about groups only by an answer behind which no login can be. So when a login is
  shown, nothing about the groups of an earlier user is left, and all that comes is of the user who is
  logged in (`Whose`).

Only model-checked:

- the JSON library besides the two parsers that build a value: its lexer, readers and writers are recursive, and what a
  recursive definition computes for every input is out of the prover's reach (RECURSIVE operators
  take its SMT backend away, and induction theorems have an operator as a parameter). So is
  `IsFraming`, whose steps call the lexer;
- liveness: `ENABLED` and fairness are out of its reach.

## 5. Observations

What the models showed that no document of the repository denies, so that no run refutes it.

- Of a connection on which several users logged in, the close handler finds one entry. The others stay
  online with a dead connection in the map, and messages to them are sent there (`sessions_live`: they are
  the users `AbandonedGoesOffline` has to except).
- A failed DELETE of the offline messages is not noticed: the same messages are sent again at every login.
- `addFriend` looks at the map of its own process only: the request to a friend who is online on another
  process waits in `OfflineMessage` until the next login.
- `reset` sets every row of `User` offline, the users of the other processes too.
- `createGroup` of the client takes the late answer to an `addGroup` for its own: both have `groupid`.
- The client looks a group up as `current_Group[groupId-1]` (`client/main.cpp:536`), which is the group of
  that id only as long as nobody else has created one.
- `queryUserGroups` reads the members one group at a time; a group may be shown with the members of
  different moments, though the creator is right (`MembersShownAreRight`).
- Parsing with a callback that rejects a value leaves the member with the value `<discarded>`; only an object
  that ends inside the same object has it erased, and then the first one only. `key_keep_stack` is popped only
  where a value is stored.
- `unflatten` takes an object whose first path begins with `0` for an array.
- In a patch, `remove` below a value that is no container does nothing; `add` there reaches
  `JSON_ASSERT(false)` against its comment; `move` takes its value away before the addition fails.
- `contains("/")` on an array throws, though the walk is meant not to.

## 6. Not modelled

- json.hpp: comments in texts, doubles in texts, high-precision numbers of UBJSON and the comparison with
  doubles, the texts and positions of exceptions, iterators, conversions to and from other types, the
  order of values, streams, and the macros: some two thirds of the header, most of it
  templates and documentation without state.
- `reg`: its answers are part of Client; the INSERT only adds a user.
- hiredis' buffer byte by byte (what it can do is the fault `"race"`), a `connect()` that fails at
  the start, the sizes of the buffers SQL texts are printed to.
- The read-only queries whose results no state depends on; the order of the client's lists and its screens.
- cc_muduo, MySQL, Redis and nginx, besides how the code uses them; build files.

## 7. Plan

Done: all modules above, their runs, and the theorems above. What is left to TLC in section 4 is out of the
prover's reach and not planned. Left to model: the parts of json.hpp that section 6 lists; the
programs use of them the conversions to `int`, `string` and `vector`.
