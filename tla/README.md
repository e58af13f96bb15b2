# A formal model of the Kalam network

Kalam is a social network whose payments, messages and identities are anchored on
Hedera.  A Next.js client (`apps/web`) talks to a NestJS API (`packages/api`) over
PostgreSQL and Redis, which uses Hedera's consensus and token services, the Tamam MPC
custody, the Mirsad AI identity checks and Pinata.  This directory holds TLA+ modules of
its core logic, TLC configurations that model-check them on small instances, and proofs
that TLAPS checks for every instance.

The repository has no tests, so the code is the only reference; where a comment, an error
message or the repository's README promises more than the code does, section 3 says so.

Paths below are relative to `src/packages/api/src/modules/` unless they start with `src/`.

## 1. Inventory

Everything in the API is an async handler in one Node process: between two `await`s a
handler runs alone, at each `await` any other handler may run.  There are no database
transactions and no locks.  `repository.save(entity)` writes the *whole* entity that was
loaded before, `repository.update(id, columns)` only some columns; this difference decides
which races lose data.  TypeORM's `save` is a select, a diff and an update; the models
take it as one write of the loaded snapshot.  In the browser the same holds between the
answers of the API: a page captures values when its handler starts and writes them to a
store that other handlers have changed since.

| Part | State | Operations | What is hard, and what makes it correct |
|---|---|---|---|
| Payments (`payments/payments.service.ts`) | `payment_requests`, `payment_index`, `transactions`, messages on topics | send; create, fulfil, decline, cancel, get a request; split; an expiry job every minute | Rows are loaded, then a transfer of up to a minute runs, then the row is saved. A request must be paid once, paid must mean paid, a topic must not announce what the table does not have |
| Custody client (`integrations/tamam-custody`) | none; the transaction lives at Tamam | vaults; create a transfer and poll it | Timeouts and lost answers: an error must not be taken for "no money moved" |
| Wallets, KYC, onboarding, profiles (`identity/`) | the row of `users`; vaults, accounts, topics, NFTs | create a wallet; submit KYC; Mirsad's callback; mint the DID NFT; save a profile, refresh the NFT in the background | Long handlers updating one row unconditionally, callbacks out of order or repeated, a flag that is never cleared. Nobody is active without an approval; the row names what exists |
| Messages (`messaging/messaging.service.ts`, `message-sync.service.ts`) | `messages_index`, `conversations.lastMessageSeq`, cursors in memory | send; sync from the mirror node every 30 s; mark as read | Two writers of one index, one of them late; a placeholder number under a UNIQUE constraint. Each message once, under its own number, none skipped |
| Conversations (`messaging/conversations.service.ts`) | `conversations`, `conversation_members`, key sets | create, add, remove, leave, rotate keys | Stale saves can undo a rotation; the last admin; nothing claims a pair of users. Keys are for the members |
| Encryption keys (`identity/`, settings page, layout) | public key and PIN-wrapped backup in `users`, private keys in the local storage of devices | generate, replace, back up, restore | A device with a replaced key. The backup opens what the public key locks |
| Organizations (`organization/`) | organizations, members, invitations | found, change profile and roles, remove, transfer ownership, invite, accept | Ownership in two tables; guards read before the handler runs. One owner, nobody joins uninvited |
| Authentication (`auth/`, `apps/web/src/lib/api.ts`) | `users`; OTP, attempts and cooldown in Redis; the tokens of the browser | register, verify, login, refresh | check-then-act on Redis keys; a silent renewal while the session changes hands |
| Chat (`chat/`) | sockets and rooms in memory, presence, typing and receipts in Redis | join, leave, type, read, disconnect | A join in flight when the socket disconnects; several sockets per account, one entry in Redis |
| Social graph, posts, broadcasts (`social/`) | follows, counts, likes, comments, posts, feeds, caches | follow, rebuild counts, like, comment, publish, fan out | Counts rebuilt concurrently, stale cache fills, submit before save, a cursor coarser than its column |
| Notifications (`notifications/`, notification store) | `notifications`; the list and the badge | save, query, mark as read | Refreshes and markings that cross |
| Pages (`src/apps/web`) | Zustand stores, `useState`, tokens, sockets | optimistic updates, loads, forms | Answers in any order, reverts of what was replaced |
| Cryptography (`src/packages/crypto`) | none | AES-GCM, X25519 | Pure functions |

How they interact: payments and onboarding *call* the custody client and Hedera and wait;
messages, payments and conversations *submit* to the same HCS topic, of which the sync job
reads a delayed copy; Mirsad *calls back* over HTTP; identity, payments and conversations
read the account that the wallet created; the gateway and notifications consume events;
the pages ask the API, keep copies, and hear of changes through the gateway.

`PROJECT.json` lists every component with its status, and every hazard with its line and
the properties that would notice it going wrong.

## 2. What is modelled

A module has one action per step between two awaits.  A *call*, *handler*, *request* or
*pass* is one execution of an async function: what it was asked, what it has read (its
snapshot) and the await it has reached.  Rejected calls change nothing and are mostly left
out.  Variables marked *(history)* remember what no code remembers (that two handlers have
overlapped, that a call failed), so that a property can say what holds *unless* that has
happened; no guard reads them.

### Payments: `PaymentRequests`, with `CustodyTransfer`, `TamamCustody`, `RequestLifecycle`

`call[c].snap` is the row that a handler loaded, `pc[c]` the await it has reached.  Loading
is the first step of a handler, `SaveRow` writes the snapshot back.  Getting a list of
requests is several `get`s.  `hcs` is the set of messages on topics: a failed submission is
logged everywhere but in creation, and may have reached the topic all the same.  `indexed`
and `recorded` are the calls with a row in `payment_index` and `transactions`.  The expiry
job is one atomic `UPDATE` (`ExpirePendingRequests`).  `Abort(c)` is an exception at an
await or the death of the process.

`CustodyTransfer` is what `executeTransfer` promises its callers, in one variable for
Tamam's side and one for the caller's: an answer with a hash only after completion, an
error at any time.  `PaymentRequests` is composed with one `CustodyTransfer` per call.
`TamamCustody` is the client itself: POST, polls, HTTP errors before and after the request
took effect, the polling budget.  Its property `AbstractSpec` is
`CustodyTransfer`'s specification under a refinement mapping.

`RequestLifecycle` is the abstract promise: a request is one object that is opened, and is
paid in the very step that records the payment; paid and declined are final.  The code keeps
cancelled and expired open to payments (`fulfillPaymentRequest` refuses only paid and
declined), and the promise says so.  `LifecycleSpec` states that serial use implements it.

The payments page is in three modules: `PaymentHistory` (the filtered list, loaded page by
page while payments are made), `PaymentBalance` (the balance, fetched from a mirror node
that lags and reduced by what is sent from here) and `SplitPayment` (the draft of the modal,
its rounding in cents, and `createSplitPayment`, which makes one request after the other).

### Identity: `KycOnboarding`, `ProfileForm`, `OnboardingWizard`

`KycOnboarding` has one user: handlers touch only their own user's row, and the webhook
finds the row by a request id that only this user has.  A *handler* is a call of the user
(`wallet`, `submit`, `profile`) or the delivery of a Mirsad callback.  `user` is the row; a
wallet call stands for the vault, account and topics it creates, a submission for its
`request_id`, a handler for the serial it mints.  Mirsad decides on a submission as soon as
its POST arrived, also before the response is stored; it may put a submission on hold and
decide later.  A callback is answered with 200 whatever happens; one whose answer is lost
(`Faults`) comes again.  Wiping, transferring and freezing an NFT happen outside and may
fail softly, as the code allows.  The background refresh of the NFT counts as a running
handler until its last update.  Onboarding's own creation of topics is unreachable, since
`createWallet` stores the topics together with the account, so the model carries no action
for it.

`ProfileForm` is the settings page that edits a profile, with the availability check of the
username while one types, `updateProfile` under the unique index of usernames, the refresh
it starts, and the user in the auth store.  `OnboardingWizard` is the screens from the
registration to the feed, with the persisted auth store as their memory; the API's handlers
are single steps there.  Every page can be opened by its address, a link or the way back
(`Open`), whatever is under way, and then leads where its effects lead (`Led`, `Mounted`).  The
register page shows its form to a user who is signed in, too, and `setTokens` leaves the rest of
the store: so another user may sign in over what the store, and the calls under way, had of the
one before (`OtherUser`), and the answer of that one's `createWallet` signs him in again
(`TheirWalletAnswers`).

### Messages: `MessageIndex`, `ChatScreen`

One conversation.  `topic` is the HCS topic, `mirrored` how much of it the mirror node
shows.  `seqOf[s]` is the number of the row that `sendMessage` inserted for `s` (0 is the
placeholder), `synced` are the numbers of the rows the sync job inserted.  The background
submission and its `then` are steps of their own (`Submit`, `NumberMessage`): the update in
the `then` is neither awaited nor caught, so that a violated constraint is an unhandled
rejection, which ends the process (`Restart`).  A *pass* is one run of the job over the
topic, one await at a time; passes overlap, since `@Cron` does not wait for the last run.
Encrypted messages have no readable sender and show the operator who pays; payment messages
are JSON and name their sender.

`ChatScreen` is the page of one member: the query, the socket's event and the input box
meet in one store for all conversations, which outlives the page.  The API answers with the
newest page of a topic (`GetMessages`): a row without a number comes last and falls out first,
and the chat page never asks for older ones.

### Conversations and keys: `ConversationMembership`, `DirectConversations`, `DeviceKeys`, `ConversationKey`

`ConversationMembership` is one group: adding, removing and leaving, which end by rotating
the key, beside `sendMessage` and the sync job, which save the same row as they loaded it.
`conv.for` is whom the stored keys are for, `onTopic` the announcements.
`DirectConversations` is `createConversation` for one pair.  `DeviceKeys` is one user's key
pair on several devices; a key pair is known by its version.  A backup is restored by the
dialog of the layout, which got it at login, or by that of the chat page, which gets it when the
PIN is submitted.  `ConversationKey` is how the chat page comes by the key and opens messages
with it.  The PIN dialog takes a second Enter while a first one is under way, and neither closing
it nor leaving the page ends the handler: what a handler of a page that was left still does is to
store the private key, of which the page that is open now hears nothing (`RestoredElsewhere`).

### Chat: `ChatPresence`, `TypingIndicator`

One conversation.  `ChatPresence` is the gateway's handlers of one socket, which run side by
side, the room, and the hashes of Redis, one entry per account.  The hashes meet only in
`leave_conversation`, so that a behaviour looks at one (`hash`).  `TypingIndicator` follows
one start and stop of typing from the input box over Redis to another member's store.

### Accounts: `OtpLogin`, `Session`

`OtpLogin` is `AuthService` and `OtpService` for one address: three keys in Redis with times
to live, changed one await at a time.  `Session` is the browser: requests that are answered
with 401, renew the token and are repeated, while people sign out and in, also over the session
of somebody else: the code changes the tokens and leaves the name.

### Social: `FollowGraph`, `FollowButton`, `LikeButton`, `CommentList`, `PostFeed`, `Broadcasts`

`FollowGraph` is follow and unfollow of one target: row, event, rebuilt count, cached
answers.  A behaviour looks at the topic or at one kind of cached answer (`looked`).
`PostFeed` is posts of one author with submission, fan-out and the three cached feeds.  The
buttons and the list are what a tab shows against what the tables have.  `Broadcasts` is the
channel, its rows dated when the submission answers, and the page of a subscriber.

### Organizations: `Organization`, `MembersPage`, `SettingsForm`

`Organization` is the service behind its guard: `row[o][u]` are the members,
`org[o].owner` the owner in the other table.  A founded organization and an invitation are
named by the handler that inserts them.  The two pages are the owner's browser, beside what is
done elsewhere: fields written, members gone, invitations answered, and an organization that was
founded in another tab, passed on to the user or passed on by him.

### Notifications: `NotificationCenter`

The rows, the queries, and the store behind the badge and the page.

## 3. Runs

Parts of the system that do not meet are explored in one run by a union: the MC module
extends their modules, `part` chooses one in the initial state, and the others stay as they
are.  The state space is the sum, not the product, of the parts.  A property that is
checked in such a run is a conjunction of what the parts promise, named in the MC module or
in the module of the part.  Symmetry is used only in runs without liveness.  `CHECK_DEADLOCK
FALSE` stands where the number of calls is a bound: when all calls are used up, nothing is
left to do.

| Run | Instance | Shows |
|---|---|---|
| `payments_race` | 3 calls of any kind, overlap, failures | `PaidIsBacked`, `RecordsAreTrue` (books match transfers, the topic is never ahead), `NeverReopened`, `PaidLostOnlyToStaleRead` |
| `payments_serial` | 4 calls one after the other; or a split of 1 or 3 cents among 2, asked at most twice; or a list of 3 transactions in pages of 1 with 2 queries; or a balance with 3 payments and 2 fetches | `AtMostOnePayment`, `LifecycleSpec`; `SplitSafety`; `PaymentsPage` (pages join, what was sent is listed once, a payment is counted once) |
| `payments_live` | 3 calls, or 2 transfers with 3 polls, or 2 posts with a reader; failures, fairness | `ExpiryHappens`, `CallsEnd`, `TransferEnds`, `AbstractSpec`, `DeletedDisappears`, and `LiveInv` (`FeedInv` of the feeds, `TransferInv` of the client) |
| `kyc_race` | 3 calls, 2 deliveries, overlap, failures | `ActiveIsVouched`, `RowIsBacked`, `DemotedOnlyByStaleHandler` |
| `kyc_serial` | 4 calls, 4 deliveries, serial, fairness | `SettledIsRight` (one vault, one living DID NFT, a user whose approval was delivered is active), `ApprovalActivates` |
| `messages_sends` | 2 sends and 2 passes, crashes, losses, also 1 send with a payment on the topic; or the chat page over 2 topics with 2 texts, of which a query brings the newest; or the profile form with 2 saves or 1 check | `MessagesInv` (`IndexIsTrue`, `ChatScreenInv`, `ProfileFormInv`), `NumberedOnce` |
| `messages_live` | 1 send, 2 payment messages, 1 pass, fairness | `PlaceholderReleased`, `SyncCatchesUp` |
| `accounts` | 4 logins, 1 attempt; or 4 overlapping calls in demo mode; or 2 followers, 3 requests; or 3 clicks on a follow button; or 2 tabs with a heart | `LoginInv`, `NamedNftLives`, `GraphSafety`, `ButtonsInv` |
| `browser` | a session with 2 people, 2 requests, 3 tokens; or the wizard with 2 polls, any page opened at any time and other users signing in; or 2 notifications, 2 refreshes; or 3 comments in pages of 2; or 2 members with 2 windows, 2 events | `SessionSafety`, `WizardInv`, `NoticesInv`, `CommentsInv`, `ChatSafety` |
| `conversations` | 3 calls on a group of 3; or 3 creations for a pair; or 2 devices, 3 keys; or 3 broadcasts; or a chat page with a rotation and 2 submissions of a PIN at once; or typing in 2 rooms | `MembershipSafety`, `DirectSafety`, `KeySafety`, `ScreensInv` (`BroadcastInv`, `ConversationKeyInv`, `TypingInv`) |
| `organization` | 3 overlapping calls of 3 users with failing saves; or the members page with 2 loads; or the settings page with changes elsewhere | `OrgInv`, `OrgSteps`, `PagesInv`, `PagesSteps` |

One more run, `payments_double`, ends in a violation of `AtMostOnePayment`: two overlapping
fulfilments both pass the check "has already been paid" and both move money.

**Stated, and not kept by the code.**  These properties stand in the modules, marked
"Not kept by the code", because a comment, a message or the look of a page promises them.
They are in no run: TLC refutes each on the instance of its module's run.  `web:` is
`src/apps/web/src/`.

| Module | Property | What happens | Where |
|---|---|---|---|
| `PaymentRequests` | `CancelOnlyFromPending` | paid between the check and the save of a cancellation, which rewrites the row | `payments/payments.service.ts:500` |
| | `PaidFollowUp` | the payer's client does not repeat the topic id, so that the topic hears nothing of the payment | `payments/payments.service.ts:362` |
| `KycOnboarding` | `ApprovedIsOnboarded` | the ordinary approval makes the user active before the controller looks, and nothing is minted | `identity/controllers/kyc-webhook.controller.ts:81` |
| | `RejectedMayResubmit` | a rejection after an earlier decision is ignored | `identity/services/kyc.service.ts:264` |
| | `WalletNeverReplaced` | two overlapping calls pass the check, the second replaces the account | `identity/services/wallet.service.ts:97` |
| `MessageIndex` | `PlaceholderReleased`, with `Faults` | a submission that failed leaves the placeholder for good, and nobody can send | `messaging/messaging.service.ts:199` |
| | `SendsDoNotClash` | two placeholders on one topic violate the UNIQUE constraint | `messaging/messaging.service.ts:172` |
| | `IndexedOnce` | the job inserts the message before its receipt, whose update then violates the constraint | `messaging/messaging.service.ts:191` |
| | `PaymentsAreIndexed` | the cursor starts at the highest number of the index, which a receipt has set past a payment that was never fetched; and a payment takes the row of a placeholder of the same user, whose receipt drops it again | `messaging/messaging.service.ts:506`, `:397` |
| | `LastSeqGrows` | a send saves the row it loaded over what the job wrote | `messaging/messaging.service.ts:208` |
| | `NotReadAhead` | a conversation whose last number is 0 counts as read up to 9999999 | `messaging/conversations.service.ts:1021` |
| `ChatScreen` | `ListIsOfChatAlways` | a late query of the page that was left replaces the list | `web:app/(app)/messages/[topicId]/page.tsx:186` |
| | `AllReadWasLoaded` | the newest page comes only, and the receipt for its last number covers messages that were never loaded | `web:lib/api.ts:597` |
| | `NewestIsAnswered` | a row without a number sorts last and falls out of a full page, although it is the newest | `messaging/messaging.service.ts:284` |
| | `TextShownOnce` | the optimistic message is kept beside the row that confirms it | `web:app/(app)/messages/[topicId]/page.tsx:326` |
| `ConversationMembership` | `GroupKeepsAdmin` | `removeParticipant` does not ask who is left; two admins leave at once | `messaging/conversations.service.ts:675` |
| | `KeysOfMembersAlways` | of two overlapping changes the stale rotation is saved last | `messaging/conversations.service.ts:869` |
| `DirectConversations` | `OneDirect` | two creations overlap, and nothing claims the pair | `messaging/conversations.service.ts:111` |
| `DeviceKeys` | `BackupIsCurrent` | a device with a replaced key offers to back it up | `web:app/(app)/settings/page.tsx:704` |
| | `KeyIsHeld` | `createWallet` stores a key whose private half it drops | `web:app/(app)/layout.tsx:52` |
| `ConversationKey` | `PinOpensMessages` | an old key derives null, which is not taken for a failure; the right PIN then opens nothing | `web:app/(app)/messages/[topicId]/page.tsx:165` |
| | `RestoredIsUsed` | a page that is opened while the PIN is checked is not told, and asks for the PIN again | `web:app/(app)/messages/[topicId]/page.tsx:276` |
| | `KeyIsOfTheList` | a derivation of an older list ends last | `web:app/(app)/messages/[topicId]/page.tsx:159` |
| `ChatPresence` | `RemovedMemberIsOut` | a removal tells the gateway nothing, the socket stays in the room | `chat/chat.gateway.ts:748` |
| | `PresentHasSocket` | a join in flight stores presence after its socket has gone | `chat/chat.gateway.ts:424` |
| `TypingIndicator` | `TypingIsTrue` | a stop overtakes its start, or is lost; the reader has no timer | `chat/chat.gateway.ts:538` |
| | `TypingIsOfRoom` | the store keeps who types when another room is opened | `web:stores/chat.store.ts:58` |
| `OtpLogin` | `MailedHasAccountAlways` | a registration rolls back the account of which another one has told | `auth/auth.service.ts:85` |
| `Session` | `RenewalKeepsRefresh` | the answer has no refresh token, and undefined is stored | `web:lib/api.ts:311` |
| | `CodeSentOnce` | the 401 of a wrong code renews the tokens of a stored session, and the code is sent again | `web:lib/api.ts:187` |
| | `NamedIsSignedIn` | a code typed while somebody is signed in replaces the tokens and leaves the name | `web:stores/auth.store.ts:112` |
| `OnboardingWizard` | `SuccessIsEarned` | the success page asks only whether somebody is signed in, and can be opened by its address | `web:app/(auth)/onboarding/success/page.tsx:29` |
| | `StoreIsOfUser` | another user signs in over the store, which keeps the account of the one before | `web:stores/auth.store.ts:112` |
| | `ActiveIsActive` | the success page and the layout write "active" of a row that is not | `web:app/(auth)/onboarding/success/page.tsx:44` |
| | `RejectionIsShown` | the page waits for `rejected`, the status is `kyc_rejected`: it polls until the attempts are used up, and then shows nothing else | `web:components/onboarding/kyc-status-polling.tsx:50` |
| | `TryAgainMayHelp` | the wallet exists and its answer was lost: each further try is refused | `web:app/(auth)/onboarding/wallet/page.tsx:119` |
| `ProfileForm` | `HintIsOfTextAlways` | the hint of the last answer stays under another text | `web:app/(app)/settings/page.tsx:94` |
| | `SignedOutStaysOut` | an answer that arrives after the sign-out writes a user into the store | `web:app/(app)/settings/page.tsx:206` |
| `FollowGraph` | `NumberIsLatest` | a late confirmation of an earlier follow writes its number over that of the last, and the save of a pair inserted meanwhile puts the placeholder over a number | `social/services/social-graph.service.ts:214` |
| `FollowButton` | `FailureRestoresButton` | the row of the discover page is reset to "Follow" whatever it was | `web:app/(app)/discover/page.tsx:53` |
| `LikeButton` | `HomeHeartIsTrue` | the home feed never asks whether the user likes the post | `social/services/posts.service.ts:1211` |
| `CommentList` | `ShownOnce` | the cursor has milliseconds, the column microseconds: a page begins with what the last one ended with | `social/services/posts.service.ts:973` |
| `PostFeed` | `DeletedIsNowhere` | home feeds and trending posts keep a deleted post for a minute | `social/services/posts.service.ts:408` |
| `Broadcasts` | `OnTopicOnce` | a row that cannot be saved is published again | `social/services/broadcast.service.ts:146` |
| | `FeedIsInTopicOrder` | rows are dated when answers arrive | `social/services/broadcast.service.ts:104` |
| `NotificationCenter` | `NotificationArrives`, `BadgeIsTrue` | nothing refreshes the list or the badge; with a category chosen the badge is that of the category | `web:stores/notification.store.ts:94` |
| | `ListIsOfHighlighted` | two refreshes answer in the other order | `web:stores/notification.store.ts:94` |
| `Organization` | `OneOrgPerOwner` | `transferOwnership` does not ask whether the new owner has one | `organization/organization.controller.ts:71` |
| | `AdminsAreServed` | the guard lets an admin in, the controller then looks for an organization that he owns | `organization/guards/org-permission.guard.ts:113` |
| `MembersPage` | `RoleChangeTakesEffect` | the client asks PATCH, the API has PUT `…/role` | `web:app/(app)/organization/page.tsx:344` |
| | `InvitedIsListed` | nothing loads the list again after an invitation | `web:app/(app)/organization/page.tsx:264` |
| | `OnlyPendingBrought` | the API answers with the invitations of every status, and the page lists them as pending | `organization/organization.service.ts:427` |
| `SettingsForm` | `EmptiedIsEmpty` | empty fields are left out of the request | `web:app/(app)/organization/settings/page.tsx:71` |
| | `DashboardOnlyOfOwner` | the dashboard stays when ownership has been transferred | `web:app/(app)/organization/page.tsx:987` |
| `SplitPayment` | `CreatedIsThisDraft` | a draft changed while its call runs is shown as created | `web:components/payments/SplitPaymentModal.tsx:153` |
| | `SharesAddUp` | shares are rounded, none takes the rest | `payments/payments.service.ts:565` |
| `PaymentHistory` | `ListIsOfFilter` | a refresh fetches all transactions whatever the filter, a payment is put into any list | `web:app/(app)/payments/page.tsx:83` |
| `PaymentBalance` | `BalanceCatchesUp` | nothing tells the widget of what was received | `web:components/payments/BalanceWidget.tsx:28` |

Only the double payment is listed as a finding with a run of its own; the others are
statements beside the property that the code does keep, with its excuse.

**Bounds and why they are enough.**  A race on a row needs whoever makes it, one handler
that is slow and one that is quick: three calls.  One payment request suffices, because no
handler relates two; two users are the two roles, requester and payer.  For a user's row,
two wallets, or a wallet, a submission and a profile change, race with two callbacks; four
serial calls are wallet, submission, resubmission and refresh.  A placeholder is contended
by two sends; two passes overlap pairwise; one payment may take over a row (in
`messages_sends` beside one send and one pass at a time, since two sends with two passes and
a payment are out of reach); a batch of two messages ends in the middle of a topic of three.
A code is contended by a registration, two verifications and a login: four.  Three changes of
a group are two that overlap and one that finds the result; two admins and one member is the
smallest group whose last admin can go.  Three handlers on organizations are a transfer, what
overlaps it, and a foundation or an acceptance; one outsider is left to be invited.  A page
meets two loads and one change.  A full page of one message (`PageLimit`) with two texts has one
that is left behind; one rotation (`MaxRotations` is 2) makes a list newer than the one a PIN
dialog was opened with, and two `Submits` are two handlers of PIN dialogs that overlap.
`MaxTokens`, `MaxKeys`, `MaxRotations`, `MaxSeq`,
`MaxNotices`, `MaxComments`, `MaxLikes`, `MaxElsewhere`, `MaxEvents`, `MaxTxs`, `MaxShown`,
`MaxPayments` and `MaxAsked` cap what would grow without end; at most one comment is deleted
in a behaviour.  `Calls`, `Deliveries`, `Sends`, `Posts`, `Passes`, `Logins`, `Requests`,
`Creations`, `Handlers`, `Updates`, `Checks`, `Fetches`, `Queries`, `Loads`, `Refreshes`,
`Marks`, `Clicks` and `Events` are the bounds on what happens, `Offered` the operations
clients use, `MAX_POLL_ATTEMPTS` (3 for 30), `MaxPolls` and `MIRROR_NODE_BATCH_SIZE` (2 for
100), `MaxAttempts` (1 for 3), `PageLimit` (1 for 50), `PageSize`, `Limit` and `Precision` the
constants of the code made small.  `Concurrent` and the `…Faults` choose between all behaviours and those of
serial, failure-free use; `MirrorFirst` says whether the mirror node may overtake a receipt.
`Granted` is the one role that role changes and invitations give; that it is `viewer` in the
run makes the loss of a right visible.  The proofs of section 4 hold for every value of all of
these.

**Fairness.**  `WF(Advance)` of every handler: an await ends, because Node's HTTP requests,
the SDK and the database have timeouts; `WF(CustodyAnswers)` and `WF(ClientStep)`: the client
polls a bounded number of times, and its timer aborts what gets no answer;
`WF(ExpirePendingRequests)`: `@Interval`; `WF(Receive)`: Mirsad delivers what it decided;
`WF(Sync)`: `@Cron`; `WF(MirrorShows)`: the mirror node follows consensus;
`WF(PageExpires)`: the time to live of a cached page.  Calls and users are not fair: nobody
has to do anything.

**Preconditions of the liveness runs.**  `kyc_serial` assumes that nothing overlaps and
nothing fails: with overlap a callback can be lost before its request id is stored.
`messages_live` assumes that submissions succeed and that the mirror node shows a message
only after its receipt was handled: the table above says what happens otherwise.  Its
`SyncCatchesUp` is about texts; `PaymentsAreIndexed` in the table is why.

## 4. Proofs

Eight modules prove theorems about the specifications, for every value of the constants: any
number of users, requests, calls, passes, devices and messages, with overlap and failures
unless a theorem says otherwise.

| Module | Theorem | About |
|---|---|---|
| `PaymentProofs` | `TypeCorrect`, `Inductive`, `PaidIsBackedHolds`, `BooksMatchTransfersHolds`, `TopicNeverAheadHolds`, `RecordsAreTrueHolds` | what the table, the books and the topic of payments may be trusted for |
| | `NeverReopenedHolds`, `PaidLostOnlyToStaleReadHolds` | action properties of the row of a request |
| | `SerialInvHolds`, `AtMostOnePaymentHolds`, `LifecycleHolds` | without overlap and failures, a request is paid at most once, and `RequestLifecycle` is implemented |
| `LiveProofs` | `CustodyInductive`, `TransferInvHolds`, `AbstractHolds` | the polling client implements `CustodyTransfer` |
| | `FeedInvHolds` | posts, their numbers, fan-out, deletion and the cached feeds |
| | `LiveInvHolds`, `LiveAbstractHolds` | both under the specification that the run `payments_live` checks |
| `KycProofs` | `KycTypeCorrect`, `KycInductive`, `ActiveIsVouchedHolds`, `RowIsBackedHolds`, `DemotedOnlyByStaleHandlerHolds` | the row of a user, with Mirsad and in demo mode |
| | `NamedNftLivesHolds` | without failures, however handlers overlap |
| | `SettledIsRightHolds` | without overlap and failures |
| `MessageProofs` | `IndexInductive`, `IndexIsTrueHolds`, `NumberedOnceHolds` | the message index |
| | `ProfileFormInvHolds` | the form of a profile, its requests and the DID NFT |
| | `MessagesInvHolds` | the index, the page of a conversation and the form of a profile |
| `AccountProofs` | `LoginInductive`, `LoginInvHolds` | codes and accounts |
| | `GraphInductive`, `GraphSafetyHolds` | follows, counts, topic and cached answers |
| | `ButtonsInvHolds` | the heart of a post, and the follow buttons |
| `ConversationProofs` | `MembershipSafetyHolds`, `DirectSafetyHolds`, `KeySafetyHolds` | groups, pairs, key pairs |
| | `ScreensInvHolds` | the list of broadcasts, the key of a chat page, who is typing |
| `OrganizationProofs` | `OrgInductive`, `OrgInvHolds`, `OrgStepsHolds` | owners, members, invitations |
| | `PagesInvHolds`, `PagesStepsHolds` | the pages of members and of settings |
| `BrowserProofs` | `SessionSafetyHolds` | the session of a browser |
| | `WizardInvHolds` | what the store remembers for the screens of the onboarding |
| | `ChatSafetyHolds` | sockets, rooms and their entries in Redis |

A proof that a step keeps the invariant has one case per action and under it one per conjunct
the action can disturb; where many actions change one variable in the same way, a lemma says
so once (`WhoRuns`, `OnlyWriteMoves`, `LookupLearns`, `RunMoves`).  The last step of each
theorem is propositional temporal logic.

**Assumptions.** Those declared with the constants: null values are no calls, users or
requests; the switches are Boolean; `Offered` and `Granted` are operations and roles that
exist; `MIRROR_NODE_BATCH_SIZE`, `MAX_POLL_ATTEMPTS`, `MaxAttempts` and `MaxKeys` are
positive; a `Pair` has two users; a group's creator is among its founders; `NoChat` is
neither a conversation nor a fetch.  `Followers`, the `Accounts` of a group, the `Handlers`
on organizations, the `Clicks` on a button, the posts of a `Blog` and the texts of a
conversation are finite sets: counts, the length of a topic and "the last admin" mean nothing
otherwise.  So are the new texts of `Broadcasts`, whose old texts are distinct and not new
ones, and fit on the topic together with those of others (`MaxMessages`).  `~Concurrent` and
`~Faults` stand in the theorems that need them; `~Faults` alone in `NamedNftLivesHolds`,
because a refresh that fails after the wipe leaves the row dangling.

**Why the invariants have to be strengthened.**  A property speaks of what is stored; what
will be stored is in the snapshots of handlers under way.  Each inductive invariant says what
a handler may hold at each await, and relates it to the tables as they are by then.

- `IInv` (payments): what a handler holds at each await (`OpInv`, `LinkInv`); a loaded
  snapshot is never a paid one and has the requester of the row (`SnapInv`); nobody but its
  creator knows a request before it is stored (`FreshInv`); what the tables and topics have
  when a handler is about to write them (`TablesInv`, `ClosingInv`).  `SerialInv` adds that one
  call runs at a time and that the row it loaded is still open; with it, every step maps to a
  step of `RequestLifecycle` or to a stutter.
- `CustodyIInv`: a request that Tamam has not handled has no transaction, and a terminal
  status on the wire is still the status (`WireInv`).  The refinement is shown for one transfer
  at a time (`Columns`) and then for all.
- `KycInv`: what exists at Tamam, Mirsad and Hedera when a handler is at an await
  (`AwaitInv`), what handlers and callbacks on their way are entitled to write (`VouchInv`),
  that demo mode and Mirsad exclude each other (`ModeInv`), and that a user who became active
  through Mirsad has `kycCompletedAt` (`DecidedInv`), without which a late callback could
  demote him.  `NftInv` adds that an NFT is wiped only after the handler that named it has
  ended; `SettledInv` follows the one running handler from its guards to its last update
  (`Turn`), with the approval that is on its way (`ApprovalInv`).
- `IndexIInv`: a message is on the topic once (`TopicInv`), a receipt is for its message
  (`SubmissionInv`), and a pass has passed over no number that is missing (`PassInv`).  A late
  placeholder must still be of the payment's sender when it is written.
- `LoginIInv`: handlers at work together have met (`MeetInv`); who creates an account found
  none, so that no mail has been sent (`AccountInv`, `MailInv`); a code is known to nobody
  before it is mailed (`CodeInv`); a verification that deleted the code was alone or met the
  others (`UseInv`); the attempts counted are the guesses made and those about to be made
  (`CountInv`).  The last one counts the verifications under way.
- `GraphIInv`: a count that is read with no request beside it is that of the rows until it is
  saved (`RebuildInv`); what a reader holds is the truth unless a write has come between
  (`AnswerInv`); an event tells what its request did (`EventInv`); unless submissions crossed,
  the row is what the one under way tells, or else the last event (`TopicInv`).
- `GroupInv`: an undisturbed handler still finds what it has read (`AloneInv`); whoever writes
  the row of the conversation writes an exchange that the topic has (`TopicInv`).  `DirectInv`:
  who found nothing has met the creation of what is there now (`CreationInv`).  `WriteInv`: who
  is about to write a key over another one was told to, or was overtaken.
- `OrgIInv`: the operation that a handler at an await can be in, and what it has been promised
  (`CallInv`); rows and invitations are of organizations that exist (`FoundedInv`); a handler
  that met nobody still sees current rows (`CurrentInv`); once it has accepted an invitation,
  nobody is on the way to do so (`UsedInv`); between the two saves of a foundation and of a
  transfer the tables differ in one known way (`OwnersInv`).
- `SessionIInv`: a request that no change of the session has overtaken carries tokens of its
  sender at every stage of the renewal (`SenderInv`); both tokens of the store are of one user,
  who need not be the one it names (`StoreInv`); only a request whose handler has not run is sent
  again (`CountInv`).
- `WizardIInv`: the status of the row tells whether there is a wallet (`WalletOfStatus`); the
  calls under way are those of the user who is signed in or are marked as somebody else's, and
  what they bring is true of his row (`CallsRest`); who is asked for his code has no wallet, or
  one that the store is still to hear of (`CodeInv`).
- `ChatIInv`: an account whose events did not cross has one under way at most (`AloneInv`), and
  that one's stage says how far the entry of Redis is behind the room (`PhaseInv`, `RoomInv`);
  a clean-up that is about to delete an entry has read it as its own, and
  nobody but an overtaken account has written it since (`DeleteInv`); receipts of one socket
  come in its order (`ReceiptInv`).

- `FeedIInv`: the topic has every post once, and a post whose submission is confirmed has its
  place there (`TopicInv`); what each handler has left in the tables by its await (`RowsInv`);
  a home page, stored or on its way, that lacks a post its reader was given waits for the
  clearing of the fan-out or is known to be late (`HomeInv`), and so for the feeds that
  `createPost` and `deletePost` clear (`OwnInv`).
- `LikeIInv`: a busy card shows the opposite of what its click found, and a tab that no write
  has passed knows what the request under way will find (`CardOK`, `KnowsRow`).  `ButtonIInv`:
  a busy button has one click under way (`AloneInv`), which is still a change before it is
  served and has been one afterwards (`BeforeServed`, `AfterServed`); what a lookup brings is
  the row (`AskInv`).  Both speak only of buttons that nothing has misled.
- `MembersIInv`: an answer under way has the roles of everybody who has not changed since it
  was asked (`AnswerInv`), as the list itself has (`CopyInv`).  `SettingsIInv`: which calls a
  page can have under way (`StageInv`), and what the answer on its way and the form on the
  screen say of the row, but for fields written and an organization gained since (`ReadInv`,
  `ShownInv`).
- `FormIInv`: a page that is closed waits for nothing (`PageInv`); what is asked of a username
  is about the text as it is (`HintInv`); a save that nothing overlaps is alone (`CleanInv`),
  so that it and its refresh, in either order, leave the NFT with what the account says
  (`NftSaysInv`), and the store has the username or an answer with it is coming (`StoreInv`).
- `ScreenIInv`: a numbered message, wherever it is held, is the row of the index (`RealInv`);
  what was sent without risk is in the store and no query is under way (`KeepInv`); an answer
  that none overlapped has every numbered message that the page may show and that is still among
  the newest (`FreshInv`); an answer has the page of rows that ends with a number, and a receipt
  is for what was in one (`ReceiptInv`).
- `KeyIInv`: no call under way knows newer keys than the conversation has (`BoundInv`); what is
  loaded has been opened with the page's key, or is about to be (`OpeningInv`); before the
  device has its private key, the keys of the list wait for it, also in every submission of the
  PIN dialog, and afterwards they are the last ones derived, or still wait because the page was
  not told of the private key (`FoundInv`).
- `TypingIInv`: a start on the wire has a stop behind it, or a timer that will send one
  (`WireInv`), and so has a start at Redis until a stop counts as missed (`CommandsInv`); a
  running timer knows its room (`TypistInv`).
- `BroadcastIInv`: no two texts have the same date, and one that waits for its answer has no row
  (`DatesInv`); where a text is on the topics, by how far its publication is (`LogInv`);
  answers and the page hold rows only, and a cursor is the date of one (`HeldInv`,
  `FeedWhole`); an answer has everything between its cursor and its last row (`AnswersInv`); at
  most one further page is on its way, and it is the next one (`MoreInv`).

TLC checked each of these invariants on the instance of its run before it was proved, and
refuted several earlier forms of them.

**What was changed for the proofs.**  `TopicTellsTheSame` (`FollowGraph`) lost a premise
that it does not need, and the properties of `MessageIndex` came to speak of payments as
well: both say more than before.  Bounds in type invariants became `Nat` where only a run
bounds them.  `ChatScreen`, `FollowButton` and `PostFeed` state that the sets they count are
finite.  The type invariant of the wizard names its Boolean variables one by one.
In `Broadcasts` the texts of others come on the topic in any order, where one order was chosen
before; the bound is on the length of each topic and on the dates; the rows of an answer are
the sequence in the order of their dates, not the result of a sort; and `RowsAreOnTopic`
compares places where it counted.  The handlers of PIN dialogs became a function of `Submits`.

**Only model-checked.**

- Liveness (`ExpiryHappens`, `CallsEnd`, `TransferEnds`, `DeletedDisappears`,
  `ApprovalActivates`, `PlaceholderReleased`, `SyncCatchesUp`): the prover has no rules for
  fairness and `ENABLED`.
- `SplitSafety` adds up shares over a set of participants: folds need induction over data.
- `CommentsInv` and `NoticesInv`: rows are filtered, joined and sorted by `SelectSeq`,
  `SetToSortSeq` and recursive functions, about which nothing can be proved without induction
  over data.
- `PaymentsPage`: the history is a list of the same kind, and the balance a sum.

## 5. What is not modelled

Contents of messages, amounts and currencies other than those of split payments, validation
of input but for usernames and the onboarding form, encryption, HTTP plumbing, layout,
read-only queries, and the components marked `not_modelled` in `PROJECT.json`.  One API
process is assumed (nothing in the repository starts several, and the cursors of the sync job
are kept in memory); its death is modelled where a handler is under way.  Also left out:

- a second tab of the browser: the stores share their local storage with it, and only what it
  does to the API or to the private key is modelled (`…Elsewhere`);
- of each kind, more than one call of the onboarding pages at a time; another user who signs in
  there has any row that is consistent;
- a second organization of one user in `SettingsForm` (`OneOrgPerOwner` in section 3);
- comments that are committed in another order than that of their `createdAt`
  (`social/services/posts.service.ts:973`): `CommentList` takes the two orders to be one, and the
  cursor may skip a comment that is committed late;
- the code `123123` that `OtpService` accepts in development;
- the days that presence and receipts live in Redis, longer than the behaviours looked at;
- rows of other paged lists than that of comments (`CommentList`) that share a millisecond;
- endpoints that the client asks for under another path than the API serves (paying and
  declining a request, changing a role, accepting an invitation): the calls fail, and where
  that changes a page the page's module has it (`MembersPage`);
- the read receipt whose field the client and the gateway name differently;
- the realtime delivery of notifications, on a namespace that the API does not have, and
  `addNotification` behind it;
- the scoring of transactions by Mirsad, `syncSocialGraphFromMirrorNode` and
  `syncPostsFromMirrorNode`, which nothing calls;
- the audit trail of notifications on HCS, which nothing reads;
- an error message that takes the place of the list of messages until the next success;
- encrypted messages that arrive by the socket, which the page shows as they are; and the list
  of online users, which only grows.

The modules stand for about three tenths of the lines of the repository's implementation.
The rest is markup and styling of pages and vendored components, DTOs, entities, wiring,
calls of SDKs and read-only queries.

## 6. Plan

Done: all components that keep state, their safety, the refinements of the custody client and
of serial payments, and the proofs of section 4.  What could follow:

1. The lists of comments and of notices as sets of numbered rows, which the provers can reason
   about, with today's models shown to implement them.
2. Models of the stats and the avatar of profiles and of the feed store.
