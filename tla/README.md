# A verification project for UT-APP

UT-APP is the back end of a campus application: a Spring Boot program that
stores teams, posts, activities and certified users in MySQL through
MyBatis-Plus, keeps counters and short-lived codes in redis, and serves chat
over web sockets with Netty. Its administrators work in a page of tabs, a shell
around FreeMarker templates whose own logic is `xadmin.js`. This directory holds TLA+ models of the parts
whose correctness depends on the order in which things happen, the TLC
configurations that check them on small instances, and proofs that TLAPS checks
for instances of every size.

Paths below are relative to `src/src/main/java/run/ut/app/` unless they start
with `doc/`; `xadmin.js` and the other scripts are in
`src/src/main/resources/static/js/`, `main.ftl` in `src/src/main/resources/templates/common/`.

## 1. Inventory

| component | state | operations | what is hard | what makes it correct |
|---|---|---|---|---|
| Team membership (`TeamsServiceImpl`, `UserTeamApplyLogServiceImpl`, `TeamsController`) | tables `teams`, `teams_members`, `user_team_apply_log` | create, rename, disband, transfer, expel, leave, apply, invite, answer | queries that expect one row and throw for two; `leave` is not a transaction; logs that outlive their team; requests that overlap | one leader per live team; a log is answered once; names are distinct; only certified users get in |
| Team profile (`TeamsServiceImpl`, `TeamsRecruitmentsServiceImpl`) | tags, logo, recruitments | save tags, logo, recruitments | delete-then-insert of tags | tags and recruitments of a team are those last saved |
| Team notifications (`TeamsApplyOrInviteEventListener`) | none | @Async mail and web socket notice | published before the row is inserted | a notice speaks of a log that exists |
| Chat delivery (`UserChannelManager`, `RetryTimerTask`, `ClientAckHandler`) | the registry of channels, channel attributes, timers, `chat_history.msg_read` | push, acknowledge, retry, close | three kinds of threads; an acknowledgement can overtake the bookkeeping of its own frame; channels close at any moment | no message is READ that nobody received; no message is given up early; retries end |
| Chat sending (`SingleTextMsgHandler`, `ChatHistoryServiceImpl`) | `chat_history` | receive, recognise a resend, save, acknowledge, push | check and save are two steps; an exception between save and push | a message is stored once and pushed |
| Web socket server (`WebSocketServer`, `WSServerInitialzer`, `AuthHandler`) | pipelines | accept, authenticate, idle, close | the `HashSet` of a user's channels is changed with and without the lock | a live channel is in the registry |
| Posts, comments, likes (`PostsServiceImpl`, `PostCommentsServiceImpl`, listeners) | redis counters, `posts.likes`, `post_comments.likes`, unread counters | like, unlike, collect, comment | several redis calls per operation; the table follows by @Async events | the counters agree with the likes |
| Certification (`UserInfoServiceImpl`) | `user_info`, `user.roles` | apply, audit | roles are added arithmetically, the status is not looked at | the roles are the approved ones |
| Activities (`ActivityAppointmentServiceImpl` and others) | `activity`, `activity_appointment` | appointment, cancel | count, insert and counter can interleave | the counter is the number of rows |
| Options and mail (`OptionsServiceImpl`, `AbstractMailService`) | `options`, a redis copy, the mail sender | save, list, send | three copies made from one another and cleared one by one, without a lock, before the save commits | no stale copy stays |
| Login (`UserServiceImpl`, `AdminServiceImpl`, `security/`) | codes and tokens in redis | send code, log in, bind | check-then-insert of users | one user per address |
| Rate limits (`HttpRequestRateLimitAspect`, `WebSocketRateLimitHandler`, `RedisServiceImpl`) | counters with expiry | count, expire | increment, look at the expiry and set it are three calls; a call may fail and the server stop in between | a window admits no more than it should; nobody is locked out for good |
| Admin shell, tabs (`xadmin.js`, `main.ftl`) | tabs and context menu of a window; `tab_list` in localStorage | open, show, close, reload | windows share `tab_list`; a menu remembers the tab it was opened for; tabs may overflow | the shown tab is open; a reload brings the tabs back; the menu acts on its tab |
| Admin shell, left menu (`xadmin.js`, `main.ftl`) | open sub-menus, width, highlighted link; `cate` in localStorage | click, narrow, widen, reload | animations; handlers that click, and store, themselves; a load that replays what it stores | a load restores the menu; the narrow menu has nothing open |
| MD5 (`xadmin.js`) | registers, blocks | md5 with and without a key | lengths around a block, carries between halves of words | the digest is MD5 or HMAC-MD5 |
| Admin session (`failReqHandler.js`, `main.ftl`), linked selects (`xcity.js`) | a token; a table of places | go to the login page; none | little; no page loads `xcity.js` | - |
| Others: forums, tags, experiences, areas, schools, front page, files | tables, external storage | single-row maintenance, reads | little | - |

The components meet in three places: team handlers publish events that the
notification listener turns into mails and web socket notices; chat sending
saves a message and hands it to chat delivery in the same thread; certification
decides who may create and join teams. Everything else meets in the tables and in redis,
which most handlers read first and write later.

## 2. Plan

| order | modules | what | status |
|---|---|---|---|
| 1 | `TeamLeadership`, `Teams`, `Teams_proofs` | membership as atomic requests, and the leadership it promises | done |
| 2 | `BoundedDelivery`, `ChatDelivery`, `ChatDelivery_proofs` | push, acknowledgement, retry | done |
| 3 | `Likes`, `Likes_proofs` | redis and table counters of likes, @Async events, rows written back | done |
| 4 | `RoleGrants`, `Certification`, `Certification_proofs` | applications and audits, roles as bits, overlaps | done |
| 5 | `OptionsCache`, `OptionsCache_proofs` | options, their copies and the mail sender | done |
| 6 | `AdminTabs`, `AdminMenu`, and their proofs | the admin shell in several windows | done |
| 7 | `Md5`, `WordArith` (their proofs are in `AdminTabs_proofs`) | the digest that names a tab | done |
| 8 | `FixedWindow`, `RateLimit`, `RateLimit_proofs` | a counter whose expiry is set in a call of its own | done |
| 9 | `TeamsRace` | the team handlers with the checks and the writes as separate steps; crashes in `leave` | next |
| 10 | `ChatSend`, then `Chat` = `ChatSend` + `ChatDelivery` | deduplication, server acknowledgement, and a message from the sender's client to the READ flag | next |
| 11 | `ChannelRegistry` | the `HashSet` of a user's channels under `add`, `remove` and iteration | |
| 12 | `Comments`, `Appointments` | unread counters; appointments and their counter | |
| 13 | `Login`, `RequestScope`, `TeamsProfile` | codes and tokens, requests kept in fields of singletons, tags of a team | |

Abstract specifications: the leadership of a team (`TeamLeadership`), the bounded
delivery of chat messages (`BoundedDelivery`), the roles that are applied for and
granted (`RoleGrants`) and the window of a rate limit (`FixedWindow`) are written,
checked and proved; left is a message that is sent once and read at most after it was
received (for `Chat`). Theorems worth proving: the invariants and the refinement of
each module, as is done for those written so far; for `TeamsRace`, which of the invariants of `Teams` survive
overlapping requests. The bounds: two or three actors, two objects, and as many
requests as the set of row ids allows. One passing run per module, with its
liveness where the state space allows it, and a run of its own for a statement
the code does not live up to.

## 3. Team membership

### `Teams`

One step is one request, from its first check to its last write. The state is
the three tables:

| model | code |
|---|---|
| `team[t]`, `name[t]` | rows of `teams` and their logical deletion |
| `members` | rows of `teams_members` that are not deleted, as records |
| `logs` | rows of `user_team_apply_log` |
| `orphaned` | history only: teams whose leader's `leave()` threw half way |

A row of `teams_members` comes from the creation of a team or from an answered
log, and carries the id of that origin in place of its generated id. The queries are
operators: `FindsOne` is what `selectOne` and `getOne` need in order not to
throw, so a handler that would throw is a disabled action, except for `leave`, whose
deletion before the throwing query stays (`LeaveAsLeader`, third disjunct).

The actions are the methods of the same names; `Expel`, `LeaveAsMember` and
`LeaveAsLeader` are the three paths of `leave`, and `Next` is what
`TeamsController` lets clients call. `SettleLogs` is `checkAndSetMember` with
the two batch writes.

Abstracted: description, logo, tags, publish status, recruitments, messages and
times. `Certified` is a constant: certification does not change during a
behaviour. A reading of the same row twice in one transaction gives the same
object of MyBatis' session cache, which matters for a transfer to oneself.

Properties (run `teams`): `AtMostOneLeader`, `LeadersLeadLiveTeams`,
`LeaderlessOnlyByLeave`, `OneWaitingLog`, `DistinctNames`, `OnlyCertified`, the
action property `AnswerIsFinal`, and `LeadershipIsHandedOver`, which says that
`Teams` implements `TeamLeadership` under `state <- team`, `leaders <-
LeadersOf`. What makes these hard is that rows get doubled: a user with a
waiting application and a waiting invitation to one team, or one rejected after
the other, ends with two rows in `teams_members`, after which many queries
throw. The runs show that no sequence of requests turns that into two leaders
or a removed team that is led.

Bounds: three certified users (a leader and two members are needed for the
failing succession, and for a transfer among non-leaders), one user who is not
certified, two teams (names and batches across teams), three logs (a doubled row
needs two, and a third request acts on it), one name and the blank one (two teams are
enough to collide; `updateTeamsBaseInfo` skips the count of equal names for the
blank name, so `DistinctNames` excepts it). Ids are used once, so a behaviour
ends when they are used up: deadlock is not checked. Users, teams and logs are
symmetric.

### `TeamLeadership`

The promise: a team is founded with a leader, the leadership passes from one
user to at most one user, and only a leader dissolves a team. A leader may go
without a successor, after which the team stays as it is for ever: that is what
the code does, and the finding `SuccessionOnLeave` says why it is not what the
code means.

### Findings

* `SuccessionOnLeave` (run `teams_succession`): a leader who leaves two or more
  members behind leaves no leader. The third disjunct of `LeaveAsLeader`.
* `RejectedStaysOut` (run `teams_rejected`): rejecting adds the member.

### Proofs: `Teams_proofs`

From the assumptions on the constants in `Teams` (above all `CertifiedAreUsers`; that
`NoName` is no name, `Blank` is one, and team ids and log ids do not collide):

* `TeamsTypeOK`: `Spec => []TypeOK`.
* `TeamsLeaders`: the three invariants on leaders. None of them is inductive by
  itself: that a live team without a leader stays one needs that no handler can
  make a leader out of nothing, and that at most one row leads after a transfer
  needs that at most one led before. Together with `TypeOK` they are
  (`LeaderInv`). Every action is first shown to have one of five effects on the
  leader rows of one team and none on the others (`LeaderStep`: kept, founded,
  handed over, lost, dissolved), and those effects are shown to preserve the
  invariants.
* `TeamsImplementLeadership`: the same effects are the actions of
  `TeamLeadership`.
* `TeamsLogsAndNames` and `TeamsAnswerIsFinal`: every action keeps the logs,
  appends one waiting log that had no waiting counterpart, or answers some
  waiting ones (`LogStep`); names are only given after a count.

## 4. Chat delivery

### `ChatDelivery`

The model follows a message from the moment it is saved to the recipient's
channels. Three kinds of threads take its steps:

| thread | actions | code |
|---|---|---|
| event loop of the sender's channel | `Push`, `Skip`, `Write`, `SetAttr`, `Abort` | `UserChannelManager.writeAndFlushChatMsg` |
| event loop of a recipient's channel | `Connect`, `Idle`, `Close`, `Remove`, `Arm`, `ClearAttr`, `SetRead`, `SetReadFails` | `AuthHandler`, `HeartBeatHandler`, `ClientMsgHandler`, `ClientAckHandler`, the write's listener |
| the `HashedWheelTimer` | `CheckAck`, `Resend` | `checkAckAndResend`, `RetryTimerTask.run` |
| the client (external) | `Receive` | answers every copy it receives |

The steps of one channel do not overlap one another (a channel has one event
loop), so a channel does not close between `ClearAttr` and `SetRead`, unless the
update fails. Everything else interleaves: in particular the frame is
written before the attribute is set, and the timer looks at the attribute before
it resends. The registry is a plain `HashSet`; an iterator that notices a change
aborts the push (`Abort`), one that does not goes on: both are possible, because
neither side synchronises with the other.

Abstracted: the text of messages, the delay of the timer (an armed task may run
at any moment), and how many copies of one frame are on the wire. A channel that
is not writable is skipped (`Skip`), whether it is closed or its buffer is full.
The retry bound is a constant, 10 in the code.

### Properties and runs

* `chat_delivery` (one message, two channels, three retries, `FairSpec`):
  `ReadWasReceived`, `AckedIsRead`, `NeverGivesUpEarly`, `UnackedIsRetried`, the
  action property `QuietAfterAck`, the refinement `IsBoundedDelivery`, and the liveness
  properties `DeliveredIsRead` and `TimersStop`. Two channels are needed because each has its own attribute and
  timer but they share the READ flag and the iteration; three retries
  distinguish the first, an inner and the last attempt. The proofs, which cover
  the safety properties, are for any number of messages.

`IsBoundedDelivery` says what all of this looks like from outside: `ChatDelivery` implements
`BoundedDelivery`, which knows only how often a message was sent over a channel
(`AttemptsOf`: the write and the resends of its task), what channels have received, whether
the acknowledgement has settled a frame, and what is READ. A frame is sent
`Retries + 1` times at most. One that is settled is never sent again, or, when the timer had
decided on a resend before it could see the acknowledgement, once.

One thing the code does not do: an acknowledgement handled between `Write` and
`SetAttr` clears nothing, the attribute is set afterwards, and the timer resends
a message that was acknowledged, in spite of the comment "check msg ack and
resend msg if not ack" (`UserChannelManager.java:227`). The value "early" of `acked` is this case.

Channels connect once, so behaviours end when all are closed: deadlock is not
checked. The run has liveness properties and therefore no symmetry.

Fairness. `ServerFairness` is what the threads do by themselves: the push thread
goes from the write to the next statement, a write completes (a write to a
closed channel fails, which completes it too), the timer thread runs the tasks
that are due, and an event loop handles the frames it has read, whether the
update succeeds or fails. `ClientFairness` is a client that reads and answers;
it is the premise of `DeliveredIsRead` and nothing else assumes it. No fairness is assumed of connecting,
closing, or of a push being started.

### Proofs: `ChatDelivery_proofs`

From `RetriesArePositive` alone, for any sets of channels and messages: the
inductive invariant `IInv` adds to the checked invariants that a frame its push
has not reached has left no trace (`FreshFrames`), that the attribute is set once
and before any timer runs (`WritingIsEarly`), that a task that is not stopped has
attempts left (`RetriesLeft`), that for a frame with a timer a cleared attribute
and a late acknowledgement are the same thing (`ClearedIsAcked`), and that
acknowledgements answer frames that were received (`AnsweredIsReceived`). There is one lemma
per action. `IInv` holds in the runs' instances and gives
`ChatDeliveryTypeOK`, `ChatDeliveryReads`, `ChatDeliveryRetries` and, with the
step lemma `QuietStep`, `ChatDeliveryQuiet`. `ChatDeliveryIsBounded` is the refinement: with one
more invariant, that a frame some channel has received was sent
(`FramesAreTried`), each action is an action of `BoundedDelivery` or a stutter.

## 5. Likes

### `Likes`

Redis keeps a key per user and target and a counter per target; the `likes`
column of the row in MySQL follows by events.

| model | code |
|---|---|
| `row`, `likes` | rows of `posts` and `post_comments`, their `likes` columns |
| `liked`, `count` | the keys of users and the counters in redis |
| `pending` | `LikesEvent`s in the queue of the @Async executor |
| `request` | where each request is: a method takes several steps |
| `doubtful`, `drifted` | history only, see below |

| thread | actions | code |
|---|---|---|
| request `like`, `unLike`, `likesComment`, `cancelLikesComment` | `Like` or `Unlike`, `Mark`, `Increment`, `Publish` | look at the row and the key; set or delete the key; increment; publish |
| request `savePost` with an id, `commentPost`, `replyToComments` | `ReadPost`, `WritePost`, `WriteComment` | read the post, write all of it back |
| executor | `HandlerLikesEvent` | `LikesEventListener`, in any order |
| whatever fails | `Fail`, `HandlerLikesEventFails`, `Restart` | a call of a request throws; the update of the listener throws, and the event with it is gone; the queue is lost |

A new post and a deletion are one step each (`SavePost`, `Delete`). The
transaction of a request that writes a post is atomic at its write, as InnoDB's
row locks make it. `updateById` does not reach a deleted row.

Assumed: the repository has no SQL schema; the `likes` column is taken to be
signed and 0 in a new row. Left out: collections, read counters, unread counters, the
content of posts.

### Properties and runs

* `likes` (`FairSpec`): `CountIsLikers` says that the counter is the number of users with
  a key, but for requests between `Mark` and `Increment`; `ColumnFollowsCount`
  that the column is the counter but for events that are on their way; `LikesSettle`
  that in the end the column is the number of likers. Each excepts the targets
  for which the code lost track, and says exactly when that is: `doubtful` when
  two requests of one user saw the same key, or one failed between key and
  counter; `drifted` when an old row was written back, or an event was lost to a
  restart, a failing request or a failing listener.
  Bounds: two users, a post and its comment, three requests (a like, an unlike
  and one that writes back; or two of one user and one of another), two faults (a request that fails and an
  event that is lost, or two events).
That the two exceptions happen is easy to see in the code: requests of one user
that overlap are all counted, because get, set and increment are three calls; and
a comment that reads the post before a like is handled writes the old number
back.

Fairness: a request that has started runs to its end (or fails), and the
executor handles its queue; no request needs to be sent. Requests are used up,
so deadlock is not checked.

### Proofs: `Likes_proofs`

For any finite sets of users and requests. `IInv` adds to the checked invariants
`ChecksHold` (of the requests of a user for a target that is not doubtful at
most one is between its look and its write, and what it saw still holds),
`NewIsUntouched` (nobody likes an id that is not drawn yet) and `ColumnHolds`
(`ColumnFollowsCount` also before a row is there). The sums are cardinalities
of sets of requests; the lemmas `Enters` and `Leaves` and their companions say how they change
when one request moves.
`LikesAgreeAtRest` puts the invariants together for a target that no request or event is
about (`AtRest`): the counter is the number of its likers, and a live row says the same in its column. This is the
safety half of `LikesSettle`, for any number of users.

## 6. Certification

### `Certification`

| model | code |
|---|---|
| `info` | rows of `user_info`; `live` is the logical deletion |
| `roles` | the column `user.roles`, an integer whose bits are roles |
| `request` | requests under way, with what they have read |
| `granted`, `stale`, `reaudited` | history only, see below |

Every request reads in one step and writes in another: `ApplyForCertification`
and `Save` (two photos are uploaded in between), `VerifyUserInfo` and `Refuse`
or `Approve`, `EditUser` and `WriteUser` (`updateUserAvatar`, `bindEmail`),
`SaveUserTags` and `WriteInfo`. Each writing transaction is atomic at its
commit. `Approve` removes the rows that PASS, then updates the approved row,
which does nothing if that row was itself removed, then the user. `Has` is the bit test
of `UserRolesEnum`, and roles are added as integers, as in the code.

An audit never asks whether the row is WAITING, and no write asks whether what
was read still holds. `stale` names the users for whom a request wrote after
something it had read changed, `reaudited` those with an audit of a row that
had an answer.

### Properties and runs

* `certification` (two users, two roles, three rows, five requests):
  `PassCarriesRoles` (outside `stale`; audits may be repeated and reversed),
  `RolesAreGranted`, `WaitsForOne` and the action property `StaysCertified`
  (outside `stale` and `reaudited`). Two applications and their audits take four
  requests; the fifth overlaps or repeats one. The two lowest bits are enough for
  a carry; users, rows and requests are symmetric. `ImplementsRoleGrants` says that
  for users outside `stale` and `reaudited` all of this is `RoleGrants`: one applies for one role at a time,
  which one does not have, an audit refuses that application or approves it, and nothing else gives
  a role, takes one away or ends a certification. The mapping reads the roles off the bits of the column and
  forgets a user whom history names.
* `certification_roles` (violation): `RolesWereApplied`. A student's application
  that is approved twice makes 1 + 1 = 2, a tutor.

`WaitsForOne` excepts `stale` with a reason: a second application that arrives
between the count and the save of the first is accepted, which the test
`repeatApplication` of `ApplyRoleApiTest` does not expect but does not provoke either.

### Proofs: `Certification_proofs`

From `RolesAreBits` (a role is 1, 2, 4 or 8). The inductive invariant has a part about requests and rows
(`Basics`: types, a row once read still belongs to its user, a row that waits
carries one role) and one per user (`UserOK`: `PassOK`, `SumOK`, `WaitOK`). The
sum of the approved roles is their set because a user waits for one role at a time,
and one they do not have (`WaitOK`), and adding a bit that is not set to four
bits carries nothing (`AddingABit`). Each writing action is shown to keep the rows of
other users (`OtherRows`) and `UserOK` of its own. `CertificationStays` follows
without a look at the actions: grants only grow, and who has one has a row.
`CertificationGrants` is the refinement. A step that lets history name a user is `Forget`; for the
others, only `Save`, `Refuse` and `Approve` change what `RoleGrants` sees, and each is the
action of that name (`Save` is `Apply`). A step is seen at the user of its row
only (`OnlySeenAt`); for that user what the request read still holds when it writes, or the step names them.

## 7. Options and mail

### `OptionsCache`

| model | code |
|---|---|
| `table` | rows of `options`; of two rows with one key, the first |
| `cache` | the redis key that `listOptions` fills |
| `props`, `sender` | `cachedMailProperties`, `cachedMailSender`; a sender is the properties it was built from |
| `monitor` | the lock of the mail service's synchronized methods |
| `twice` | options that two saves created: there are two rows with one key |
| `saver`, `lookup`, `mailer` | where each thread is, and what it has read |
| `early`, `overlapped`, `mixed`, `outdated` | history only, see below |

| thread | actions | code |
|---|---|---|
| request that saves | `Compare`, `WriteBatches`, then `HandleOptionsUpdatedEvent`, `ClearSender`, `ClearProps`, then `Commit`; or `Rollback` | `OptionsServiceImpl.save(Map)` and, in the same thread, the two listeners of its event |
| request or mail that looks up options | `Miss`, `List`, `Store` or `LookupFails`; `Hit` | `listOptions` |
| mail executor | `Enter`, `GetMailProperties`, `SetProps`, `ReturnProps`, `SetSender`, `ReturnSender` | `getMailSender`, `getMailProperties` |

A save is one transaction: `@Transactional` stands at the method of the interface
(`OptionsService.java:40`), which is the one the controller calls. The two batches and the event
are inside it, so that the listeners clear the copies before anybody else can see
what was written (`WriteBatches` to `Commit`), and a batch or a listener that throws undoes
both batches, but not what was cleared (`Rollback`). A save that updates a row which another one
has updated and not committed waits for it (`Unlocked`); two that insert the same option
do not, and leave two rows. The listeners run in either order. `clearCache` writes fields that are not
volatile, without the monitor; the two writes may therefore take effect in either
order, between any two steps of a mail. A mailer reads its options one by one,
with a lookup for each. A lookup of a `Reader` stands for every other one, also for
the one of the switch `email_enabled`, which is left out, like the sender's
name. `save(OptionsParam)` and `update`, which publish before they write, are
called by nothing and left out.

`early` are the copies that were set after a save under way had cleared them;
`overlapped` the lookups that read the table before a save committed; `mixed` the mails that
hold what such a lookup or a stale copy gave them; `outdated` the copies that such threads
made, and those that were early when the save committed.

### Properties and runs

* `options` (`FairSpec`; two options with two values, two saves, two mails):
  `CopiesFollowTable` and `MailsEnd`. Every copy is the committed table, or goes back to
  a read before the commit of a save. The second save clears what the first one left behind, waits for
  it, or creates an option that it created. Two options make a save that
  updates one and creates the other, and properties out of two lookups. Two mails
  compete for the monitor, and one finds the copies of the other. Readers would
  take the steps of the mails' own lookups; they are left to the proof, which has any number of
  saves, readers and mails.

The exception of `CopiesFollowTable` happens: a lookup between the clearing and the commit stores the old
options in redis, without an expiry, until the next save.

A save that clears a field between the test of it and its return makes one of the two
getters return null, although both are `@NonNull`; the mail is lost. That step is part of the
model; `MailsEnd` shows that the thread ends and the monitor is free afterwards.

Fairness: a thread of the executor that has a mail goes on, and gets the monitor
when it is free for good; each mail uses it once. Saves and readers need not go on. All threads of
saves and mails are used up in the end, so deadlock is not checked.

### Proofs: `OptionsCache_proofs`

From `OptionsAreCounted` and `NothingIsNoMailer`, for any options, values and threads. The inductive invariant adds to `TypeOK`
that a mailer looks up options only for one it still has to read (`LookupsAreWanted`), that what
a lookup has listed (`LookupOK`) and what a mailer has gathered (`MailerOK`) is the table unless history says
otherwise (`Current`), and of each copy that it follows the table and that, if a save under way has cleared it and
it is there again, it is `early` (`ClearedOK`, in `CopiesOK`). The argument: the one step that
changes the table is `Commit`; by then the save has cleared every copy, so a copy
that is there is early and becomes `outdated`, and every lookup and mailer with something in hand is
recorded as well. `CopiesAreFollowing` follows.
`OneMailAtATime` is mutual exclusion for the synchronized methods: the monitor belongs to a mail exactly while it is inside
(`MonitorIsHeld`), also when a lookup or the factory throws. It needs that a failing lookup is one of the mail
that has the monitor, which is `LookupsAreWanted`, and `NothingIsNoMailer`.

## 8. The admin shell

The page `/admin/index` (`main.ftl`) shows a menu on the left and, in tabs, the
pages it leads to. Any number of windows of one browser may show it; they share
localStorage, and nothing tells a window what another one did. A handler runs to
its end before the next one starts, so a handler is one action; what interleaves
are the windows, the animations, and loads.

### `AdminTabs`

| model | code |
|---|---|
| `tabs[w]`, `shown[w]` | the li of `.layui-tab-title`, and the one with `layui-this`, or none |
| `bar` | windows in which layui has appended `span.layui-tab-bar`, as their tabs overflow |
| `target[w]`, `over[w]` | the attribute `lay-id` of `#tab_right`, and the li it stands under |
| `tabList` | the table `tab_list` of localStorage |
| `others[w]` | history: the tabs other windows opened or closed since `w` was loaded |
| `overflowed` | history: windows whose tabs overflowed since they were loaded |

| action | code |
|---|---|
| `Load`, `Leave` | `init`; the page is left |
| `ShowAgain`, `AddTab` | the two paths of `add_tab` |
| `ClickTab`, `CloseIcon` | layui's own handlers (`element.js`); the second one ends in the handler of `tabDelete` |
| `Measure` | layui's `tabAuto`, 50 ms after a tab closed and when the window changes its size; `Load` and `AddTab` run it too |
| `RightClick`, `CloseThis`, `CloseOther`, `CloseAll`, `ClickAway` | the context menu |

A list is a reflexive order, a set of pairs: removing tabs is then a restriction and
appending one a union, and the proofs need no induction on sequences. `md5` of a url is taken to
name it (`Md5` is the model of that function); titles, and the reloading of a tab that
is opened again, are left out. layui shows what comes next when the shown tab
closes, or the previous tab when nothing does (`Neighbour`). What comes next to the last tab of a
window whose tabs overflow is the span: it takes the class `layui-this`, and the window shows no tab
until one is clicked, opened or opened again. Widths are left out, so that the tabs of a window may overflow
or fit whenever layui measures them. Clicks in
the tab bar and in the page hide the context menu; those in the left menu do
not, as they are not propagated.

Properties (run `admin_tabs`; two windows, two pages): `ShownIsOpen`;
`MemoryIsTabs`, which says what `tab_list` knows of each window; `ReloadKeepsTabs`,
the point of `tab_list`; `MenuIsForItsTab`. Two windows are enough for one to change
what the other reads, two pages for an order and for "the others".
Windows and pages are symmetric.

Three things the code does not do, which the properties except: a window whose tabs
overflow does not always show a tab (`ShownIsOpen` says that only such a window may show none); a tab that a window still shows after
another one closed it is not stored again when it is opened again, as `add_tab`
returns before `set_data`, so a reload loses it; and the home tab has no `lay-id`, so the menu that is opened
over it keeps the one of the tab before: "关闭当前" (close this one) then closes a tab that
was not clicked.

Proofs (`AdminTabs_proofs`), for any windows and finite pages: `TabsStayGood`
needs lemmas on lists (appending and restricting keep an order total; a finite
list has a first and a last element) and that the home tab is never among
those closed (`MenuSpares`), so that there is a tab to show whenever the span is not there (`NeighbourStays`). `MemoryStaysTabs` and `ReloadsKeepTabs` need in addition that the
home tab is the first (`HomeFirst`); `MenuStaysForItsTab` that a tab closes
under a hidden menu only.

### `AdminMenu`

| model | code |
|---|---|
| `opened[w]`, `visible[w]` | the li with the class `open`; the sub-menus that can be clicked, also while they slide up |
| `active[w]` | the highlighted link |
| `nav[w]`, `cover` | the width of `.left-nav`, at an end or on its way; `.page-content-bg` |
| `cate` | the table `cate` of localStorage; `f3` is always null |
| `last`, `late` | history: the li whose handler ran last; windows where a li was clicked while the menu shrank |

`Click` is the handler of the li, `LeftOpen` and `LeftOpenExpands` the two paths of the
button, `ClickCover` the dimmed page, `Load` runs `end`. Three handlers click in turn:
`end` replays what is stored, and the two that shrink the menu click the open li
(`Collapsed`), which stores it. They call the handler as an operator on a page
(`Clicked`), as the code does within one event. Two ends of the
animations are actions (`WidthSettles`, `SubMenusSettle`). Left out: tips, icons, and the
third level, which `main.ftl` does not have.

Properties (run `admin_menu`; a wide and a small window, two sub-menus of one li
each): `MemoryIsLastClick`, `LoadRestores`, `NarrowIsClosed`. The last one excepts
`late`: the handlers compare the width with its two ends, and a li clicked
between them opens its sub-menu in a menu that ends narrow. `LoadRestores` says what is stored
is restored, not that it fits the window: if two windows click in turn, `f2` may be a li
of another sub-menu than `f1`, and is highlighted inside one that is closed.

Proofs (`AdminMenu_proofs`), for any menu of two levels and any windows: lemmas say what
`Stored`, `Clicked`, `Collapsed` and `End` do to a page, and each action is an
instance of one of them (`PageStep`). The strengthening says of a menu that
shrinks what `NarrowIsClosed` says of a narrow one (`NarrowingIsClosed`).

### `Md5` and `WordArith`

Encoding a character is one step (`Str2rstrUTF8`, the key first), and so is every operation on a
block (`Operate`). TLC's integers have 32 bits and a sign, so that a word is a pair of halves;
`SafeAdd` is then the code's own computation, `BitRotateLeft` works on halves, and `&`, `|` and `^`
are the operations on the sets of the bits of a half. A string is the sequence of its code points,
bytes are numbers, and the table of rotations and constants stands for the 64 lines of calls.
`JobsAreCalls` says what a call is: strings that `encodeURIComponent` takes, of at most `MaxLength` characters, 2^25,
for which a length in bits is below 2^31 as JavaScript's shifts need it.

Run `md5` makes fourteen calls: lengths of 0, 1, 3 and 26 bytes, 55, 56, 63 and 64
around the end of a block, 120 for a second one, strings of characters of three and
four bytes, keys of 16 bytes, of exactly a block and of one byte more, raw and in hex. `DigestIsKnown`
compares the digests with those of RFC 1321 and of another implementation,
`PaddingFillsBlocks` what is hashed with the definition of the padding, byte by byte, and
`WordsFillBlocks` says that registers and blocks are words and that the blocks fill the message. The
choice of the calls is the only bound.

The proofs are at the end of `AdminTabs_proofs`, as the digest is what names a tab. They are for all calls that
`JobsAreCalls` admits.

* `SafeAddWraps`: for all words, the sum by halves with its carry is the sum modulo 2^32.
  `BitRotateLeftRotates`: for all words and all counts from 0 to 31, exchanging bits between the halves is
  the rotation, that is, the lower 32 bits of the shifted number plus what went beyond them. TLC could
  not even state either, for lack of integers that large. The rotation needs what a shift leaves in a
  half and what it carries out of it (`ShiftBounds`), which Z3 shows for each of the 16 shifts, and that
  division with a remainder is unique (`DivisionIsUnique`).
* `Md5StaysInWords`: `WordsFillBlocks` holds of every call. `Operate` reads `padded[at + Input(step) + 1]`, so that
  the invariant has to know that a block of 16 words begins at `at`; that follows from the length of a padded
  message (`PaddedMakesBlocks`) and from the step from one block to the next. Each operator on words is
  shown to make words: the bitwise ones by `BitsMakeHalf`, the sum and the rotation by the two theorems
  above, the tables by `OperationTables`.
* `PaddingIsRight`: `PaddingFillsBlocks` holds for a message or a key of any length, where TLC tries fourteen. The
  inductive invariant `WordsInv` adds to `WordsFillBlocks` that a call that is being encoded stands
  at the first block, and that what is hashed is still what was padded. The rest is one fact about
  `Padded` (`PaddedBytes`): byte `k` lies in a word before the one in which the message ends, in
  that word, between it and the length, or in one of the last two. The word in which it ends is the difficult case
  (`MarkedBytes`): there the code puts the 1 bit into a word that may hold up to three bytes of the message,
  with `|=`, and they stay because a half is the sum of its bits (`HalfIsItsBits`), none of which the mark shares
  (`MarkedHalf`).

`DigestIsKnown` stays with TLC: it is a computation, and no statement about all strings.

## 9. Rate limits

### `RateLimit`

One key of redis (`count`, `ttl`) and the requests that run
`overRequestRateLimit` on it: `Increment`, `GetExpire`, then `Expire` or `LeaveExpiry`.
`Tick` is time as redis counts it, `Crash` a stop of the server: the requests are gone, the
key stays. In `CallFails` a call throws after INCR has counted: one request is gone, and an `EXPIRE` whose
answer was lost may have set the expiry. (An INCR that throws without having counted changes nothing.)
Both are bounded by `FaultBound`. The code asks of a count only whether it is 1 and whether it is over the
limit, so counts over `Max` are one value and requests come without end.

`granted`, `admitted`, `holders` and `age` are history: a window begins with the first request of a key, unless an earlier
window of `Window` ticks is still running; `granted` are the requests that INCR counted within `Max`, `admitted` those of them
that were let through, in `Answer`, and `holders` the requests of the window that have no answer yet. `orphan` says that a fault took away the last
request that would have given the key an expiry, and none came since.

### Properties and run

* `rate_limit` (`FairSpec`; three requests at once, two admitted in three ticks, two
  faults): `OnlyMaxInWindow`, the promise of `RateLimitEnum` ("only M times can be requested in N
  time units"), counted from the first request of a key: the code has fixed windows, and
  between two of them up to `2 * Max` requests may come in a shorter time, except for `Max = 1`, the
  only limit of the HTTP handlers. `ExpiryIsOnItsWay`: a key without an expiry has a request that gives it one, unless a fault took the last one.
  `KeysEnd`: the key ends, and with it the refusal, also when requests keep coming. A late
  `Expire`, of a request of an earlier key, makes a window longer; it does so once per
  request under way. Three requests are one that makes a key, one that is late, and one that is refused; two
  faults are a failing call and a stop, or two failing calls.
  `ImplementsFixedWindow` is the other side of the promise as well: the limiter implements `FixedWindow`, in
  which a window has `Max` places, lasts `Window` ticks at least, and refuses nobody
  before the places are taken; a limiter that refuses everybody would satisfy `OnlyMaxInWindow`. A place is taken when INCR counts:
  a request that fails afterwards has used one up without getting through, so with `Max = 1`, the limit of the HTTP handlers,
  its address is refused although nobody was let through.

Fairness: time passes, and a request under way goes on; none has to come. `KeysEnd` is
about the time after the last fault, and about a key that some request is at, as nothing else would
notice that it has no expiry.

### Proofs: `RateLimit_proofs`

For any finite set of requests and any positive limit and window. The invariants are not inductive by
themselves: that a window is not shorter than `Window` ticks needs that its age and what is left of its expiry add up to
`Window` at least, and that without a key the last window is that old (`WindowLasts`); that no more than `Max` are let through needs that while there is a key the
count says how many places are taken (`CountIsGranted`), and that those let through and those still on their way to it had a place each (`PlacesAreKept`). `IInv` is these
three with the type invariant and `ExpiryIsOnItsWay`; `TypeIsKept`, `LimitHolds` and `ExpiryIsSet` follow, and `LimiterIsFixedWindow`
maps each action to one of `FixedWindow`: `Increment` to `Begin`, `Grant` or `Refuse`, an answer to `Admit` or a stutter, `Tick` to
`Tick`, everything else to a stutter.

## 10. What is not proved, not checked, not modelled

* Liveness (`DeliveredIsRead`, `TimersStop`, `LikesSettle`, `MailsEnd`, `KeysEnd`) is model-checked only, as
  the prover does not treat fairness. So is the invariant `DigestIsKnown` of `Md5`, which compares a computation with
  known digests; it is the only one of the runs' invariants that no theorem states.
* The type invariants are proved, as part of the inductive ones, and no run checks them but that of `Md5` (`WordsFillBlocks`). The
  theorems `LikesAgreeAtRest`, `OneMailAtATime`, `SafeAddWraps` and `BitRotateLeftRotates` state
  properties that no run checks either.
* The violations are shown by TLC's counterexamples only.
* Requests to the team handlers overlap in reality; `Teams` says nothing about
  that yet. Nothing but a count keeps names distinct, and nothing but a read
  keeps two transfers apart, so some of its invariants will fail there.
* `Likes` and `Certification` let requests overlap and say in history variables where
  that leaves the data wrong; they do not bound how often it happens.
* A crash of the server loses every push, attribute and timer of
  `ChatDelivery`. There is nothing to recover from: an unread message is pushed
  once, when it is sent.
* The scripts of the repository that no page loads (`xcity.js`) are not modelled, and of the
  libraries under `lib/` only what `xadmin.js` uses of layui's tabs and jQuery's animations.
  `failReqHandler.js` shows a message and leaves the page; it has no state.
* Components listed in section 1 without a module are described in `PROJECT.json`
  with the reason.

## 11. Running

`tlc -config MCTeams.cfg MCTeams` and likewise for the other configurations;
`tlapm Teams_proofs.tla`, and likewise for the other modules that end in `_proofs`. Operators under
"Mutant" comments in the modules are variants of a definition with a plausible
mistake; each property is violated when the variant named in `PROJECT.json`
replaces its definition.
