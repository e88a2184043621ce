# Giphery: a model of the server

Giphery is a self-hosted GIF library: a FastAPI service (`src/server/app/`)
with PostgreSQL for rows and a directory for GIF files, an HTML console for the
administrator, and paired phones that hold token pairs. This directory holds
TLA+ models of the server's stateful parts, TLC configurations that check them,
and TLAPS proofs about all of them.

## How the server runs

* `src/server/Dockerfile` starts gunicorn with **two uvicorn workers**. Each is
  an event loop; requests of one worker interleave at every `await`, requests of
  the two workers interleave anywhere, file calls included.
* Every request has its own session and transaction (`db.py: get_session`),
  READ COMMITTED. Rows are read when a statement runs, changed as Python
  objects, and written at a flush or at the commit. An `UPDATE` writes only the
  columns that were assigned, and the last commit wins.
* The commit is the exit code of a dependency with `yield`. In the pinned
  FastAPI (`pyproject.toml`: 0.137) it runs **after the response was sent**. An
  error rolls back before the error response is sent.
* An `UPDATE` of a row that vanished fails the commit; a `DELETE` of one is only
  warned about. An insert with a foreign key holds a share lock of the parent row.
* A crash loses the transactions of the worker; files stay as they are.

## Inventory

| Part (source) | State | Operations | What makes it correct | Model |
|---|---|---|---|---|
| Device sessions (`services/auth_service.py`, `auth/deps.py`, `auth/tokens.py`, `services/users_admin.py`, `models/device.py`) | `devices` rows; signed tokens held by clients | login, refresh, logout, revoke devices, delete user | a token names one device; a withdrawn credential stays dead; reuse revokes only for spent tokens; logout ends the session | `DeviceSessions`, `SessionContract` |
| Invitations (`services/invites.py`, `routers/invites.py`, `routers/webui.py`) | `invitations` rows, accounts they create | create, re-pair, revoke, delete, clear, redeem | no more uses than allowed; revocation final; failures cost nothing | `Invitations` |
| Media (`services/gifs.py`, `storage/filesystem.py`, `routers/gifs.py`) | `gifs` rows, files, temporaries | upload, raw, delete | every row has its file, whole; one row per owner and content | `MediaStore` |
| Tags (`services/tags.py`, `routers/gifs.py`, `services/gifs.py`) | `users`, `gifs`, `tags`, `gif_tags` rows | upload with tags, replace a list, attach, detach, delete a GIF or an account | an edit changes what it was asked to change; it fails only because of another for the same GIF, bytes or name; no wait without end | `Tags` |
| Accounts, setup (`routers/setup.py`, `services/users.py`, `services/users_admin.py`) | `users` rows | setup, join, delete | one first administrator; the last administrator stays | `Accounts` |
| Console sessions (`webui/security.py`, `routers/webui.py`) | cookies of a browser | sign in, refresh in `current_admin`, sign out | a signed-in administrator stays signed in | `ConsoleSession` |
| GIF search (`services/gifs.py`) | the client's cursor | page after page | no row that stays is skipped or repeated; the walk ends | `Search` |
| Rate limits, logging and redaction, password hashes, invite-code encryption, GIF decoding, migrations, settings, templates | — | — | — | not modelled: library code, text handling or no state; see `PROJECT.json` |

The parts meet in the database. A redemption creates an account and a device; a
deleted account takes its devices, GIF rows and re-pair codes with it (foreign
keys with `ON DELETE CASCADE`) and clears `redeemed_by`; a GIF row names a file
by its content hash, and rows of several owners share it. `DeviceSessions`,
`Invitations` and `MediaStore` contain the account deletion as an action with
the cascade it has there, `Tags` with the one it has in the library; `Accounts`
has the rules that guard it. `ConsoleSession` composes the browser with
`DeviceSessions`, `Search` composes the client that turns pages with the edits
of `Tags`, and `Invitations` is shown to create and delete users as `Accounts`
says (`ImplementsAccounts`).

## The modules

### `DeviceSessions` and `SessionContract`

`devices` is the table, `issued` the pairs that were ever signed (a client may
present any of them, in any order, as often as it likes), `req[r]` what the
worker that runs request `r` knows: its program counter, the presented token,
what it read, the token it minted. `users` are the accounts. `spent` and `closed`
are history variables: tokens that stopped being the current token of an
unrevoked device, and devices that stopped being unrevoked. `late` remembers
whether the presented credential was withdrawn when it arrived.

Each await is a step: `Login`/`LoginFlush`/`LoginCommit` are `login` and
`issue_tokens_for_new_device`; `PresentReused`, `RefreshReuse`, `Present`,
`RefreshFind`, `RefreshUser`, `RefreshCommit` follow `refresh` statement by
statement; `Logout`, `LogoutDevice`, `LogoutCommit` are `get_current_user`
followed by `logout_device`, which selects the device again (one revoked in
between is left as it is, which is what revoking it again would do);
`RevokeDevices`/`RevokeCommit` and `DeleteUser`/`DeleteCommit` are the
administrator's. `RefreshReuse` commits before the 401, as the code does.
`Rollback` ends a request anywhere without writing.

`SessionContract` is what the table promises: a session is opened with a token
nobody held, its live token is exchanged for a new one and is spent, and a
session once closed stays closed. `ImplementsContract` maps `live[d]` to the
current token of an unrevoked row.

Left out: expiry of tokens (a refused presentation), `is_active` (no operation
changes it), re-hashing of passwords, rate limits, audit lines. The stored
SHA-256 of a refresh token is one to one with its jti.

### `Invitations`

`invites` are rows, `codes` the codes handed out, `past` the invitations whose
date has passed, `accounts` the users a redemption creates. `seen` is the row as
the request read it: `Redeemed(row, seen, u)` writes the three columns the code
assigns, computed from `seen`, over the row found at the commit. `redemptions`
counts the committed redemptions of a code.

Every statement that locks is a step, and locks are taken one after another:
`RedeemFlush` inserts the device, which shares the row of its user (`Refers`), and
`RedeemCount` updates the invitation; `LockRow` takes the next of the rows a
request is going to update or delete (`picks`, `asks`, `held`). A clearing goes
through them in the order of their ids, an account deletion
locks its user first (`DeleteUserFlush`, `Deletes`), then the rows of its cascades
in an order nobody specified. `WaitsFor` says who waits for whom: for a row, for a
user that others refer to or delete, for a username that another transaction has
inserted (`Claims`). `Deadlock` is PostgreSQL aborting a request in a circle of
waits; `InCircle(r)` is the transitive closure of `WaitsFor`, for any number of
requests: every set that holds what `r` waits for, and what its members wait for,
holds `r`.

A username that was deleted is not registered again (a bound). The administrator
is not one of `User`, and codes do not collide (`lookup_hash` is one to one).

`ImplementsAccounts` maps the module to `Accounts`: `Role` gives the roles, `Admin`
being the only administrator, and `UserRequest` what `Accounts` sees of a request: a
sign-up is a member who joins, from the insert of the name to its commit; a
deletion is a deletion; re-pairing and everything about codes is a stutter.

### `MediaStore`

`gifs` are the rows; `target[c]` and `tmp[c]` are the inodes at `<hash>.gif` and
`<hash>.tmp`, `whole` the inodes with all bytes. `store_bytes` is four steps
(`exists`, open and truncate, write, rename) since two processes run it at the
same time; in one worker nothing runs in between (`LoopFree`). `RawRead` keeps
the inode it read when that was not whole. A request forgets its worker when no
file call lies ahead (`Moved`). `Crashes` says whether `Rollback` may
happen: a worker dies or a connection breaks between any two steps, the half
written temporary file included. Three history variables say what cannot be
excused: `undercut` are contents for which a deletion had found no other row, and
so was bound to unlink the file, while an upload relied on it (it had found or
stored it and not committed its row), or whose deletion died between its unlink
and its commit; `shared` those whose temporary file two
uploads had in use at once; `orphaned` those of them one of whose writers died.
Titles (`PATCH` overwrites them) and tags are left out; `Admin` is an account that
cannot be deleted by itself, so the system never runs out of owners.

### `Accounts`

`accounts[u]` says whether username `u` is free, an administrator, a member or
deleted. Three rules read first and write later: `Setup` is refused when any user
exists, `Insert` looks the name up and then relies on the unique index (another
transaction's uncommitted insert of it makes it wait, `Claimed`), and
`DeleteUser`/`CountOthers`/`DeleteCommit` count the other administrators in one
statement and delete in another. `raced` and `crossed` are history variables: two
setups were under way at once; two deletions of administrators had both passed
their count. A username that was deleted is not registered again (a bound), and
no operation of the server changes a role.

What holds of these rules, with the two overlaps excused, is proved
(`OneAdministrator`, `LastAdminProtected`); the run `NoAdminLeft` shows what happens
in the overlaps; and `Invites` checks that the users of `Invitations` behave so.

### `Tags`

Every edit of a list computes the new list in Python and assigns it
(`gif.tags = ...`); the unit of work then sends the difference to the list it had
loaded. `Plan` is that translation: the statements a request is going to send,
in the order the code makes SQLAlchemy send them. `job[r].todo` is the rest of
them, `job[r].done` the statements whose effects and locks the transaction holds,
`met` (history) what others were asked meanwhile. An action is one statement:

* `Dedupe`: an upload looks for the same bytes of its owner first; if they are
  there, the GIF that has them is returned as it is and the names are ignored.
* `Find`, `Create`: `get_or_create`. The session does not autoflush
  (`db.py`), so `create` flushes by itself, a name at a time, in the order given.
* `Keep`: a name of the new list that was in the loaded one. Nothing is sent.
* `Require`: `_require_gif`, and again in `replace_tags`. The row is in the session
  already, so its list is *not* loaded again; a row that vanished is a 404.
* `Insert` and `Own`: the row of a GIF enters `uq_gifs_owner_hash`, and then its
  owner is checked. Each may wait, and each may fail.
* `Unlink` before `Link` and `Refer`: rows of `gif_tags`. Deleting one that is gone
  deletes nothing (the dialect does not count these rows). Inserting one enters the
  primary key first, where one that is there fails the flush, and then checks its
  GIF; a row may be entered while the check waits for a deletion.
* `Leave`, `Drop`: the row of an account, the row of a GIF, and the rows of
  `gif_tags` their cascades delete, GIF by GIF.

`Blocks` says which statement waits for which finished one, index by index and key
by key: two inserts of one name, of one `gif_tags` row, of the same bytes; a
foreign key and the deletion of the row it refers to; a cascade and whoever has
deleted one of its rows already. `Deadlock` and `InCircle` are those of
`Invitations`. `owners`, the accounts, only shrink. `TagSpec` is the library without
the search.

### `Search`

The client of `GET /gifs`: `NextPage` asks for the rows below `cursor`, highest
ids first, one more than `Limit` to see whether there is a next page.
`Edit` is any step of `Tags` between two pages. `shown[g]` counts up to two,
`steady` (history) are the GIFs that matched from the first page on without
interruption. An id is made before its row is committed, by the clock of its
worker, so rows may appear above the cursor as well as below it.

### `ConsoleSession`

The administrator's browser in front of `DeviceSessions`, which it extends. `jar`
are its two cookies, `tab[r]` what it waits for in request `r` (a page, the
redirect after a form, or a sign-in) and the cookies in the answer, `aged` the
pairs whose access token has expired. Requests with a good access cookie change
nothing and are left out; the others go through the steps of `refresh`, and
`SignIn` through those of `login`. `Reply` is the answer leaving before the
commit: a page carries the new cookies (`_render` copies them), the redirect that
answers a form does not. `Receive` is the browser taking it. `Lose` and
`CommitLost` lose an answer or a commit; `SignOut` deletes the cookies and, as in
the code, revokes nothing. `signed` and `causes` are history variables: whether
the browser signed in, and whether since then requests overlapped (`"overlap"`),
something was lost (`"lost"`) or a form had to refresh (`"form"`).

Left out: a form answered with a page (it counts as a page), the CSRF cookie,
first-run setup (it signs in like `/login`), and the administrator's own devices
being revoked. `current_admin` serves a good access cookie without looking at the
device, so such a revocation would show at the next expiry only.

### Model-checking modules

`MCDeviceSessions`, `MCMediaStore`, `MCAccounts` and `MCConsoleSession` add the
symmetry sets, used only in runs without liveness. `MCInvitations` and
`MCSearch` also say which requests may arrive together (`MCArrival`, `Arrivals`;
`MCSpec` is the specification with them): those of `Invites` and `Library` are
listed under "Bounds". `MCSearch` says in addition whose the GIFs are and which
have the same bytes.

## The runs

| Run | Instance | Shows |
|---|---|---|
| `Sessions` | 2 users, 2 devices, 3 tokens, 2 requests, fair | `SessionInv` (the inductive invariant with the types), `TokenNamesOneDevice`, `OnlySpentTokensRevoke`, `DeadCredentialNeverServed`; the table implements the contract (`ImplementsContract`); requests end |
| `Invites` | 3 names (1 member), 2 codes, one of them for signing up, 2 uses, 2 requests, fair | counter within the limit, failures cost no use, references exist, clearing takes only revoked or expired codes, revocations survive; users come and go as `Accounts` says (`ImplementsAccounts`); requests end although a clearing and the cascade of a deletion lock the two rows in crossing orders |
| `Media` | 2 owners, 1 content, 2 workers that may die, 2 requests, fair | `FilesLostOnlyIfUndercut` (the two ways shown by `UploadDuringDelete` and `DeleteDies` are the only ones), `WholeUnlessShared` (nothing torn is replied of a file two uploads never prepared at once), `TornFileIsBeingWritten`, `OneRowPerOwnerAndContent`; requests end |
| `Console` | 2 tabs, 2 devices, 4 tokens, symmetric | `PagesKeepSession`: one page at a time, the browser stays signed in through any expiry, and signed out after signing out |
| `Library` | 4 GIFs (2 there at the start, 2 uploads of the same bytes), 2 names, 2 accounts, 3 requests, pages of 1, fair | what commits may change (`OnlyAskedChanges`), edits alone at their GIFs are exact (`LoneEditsExact`), failures have a rival (`FailuresNeedRival`), attaching or detaching one tag is in a circle of waits only when its row is entered and its GIF is being deleted (`SingleEditsStopForDeletions`); no GIF that stays is skipped or shown twice (`WalkShowsSteadyOnce`); edits end, the walk ends |

Seven runs state what a document, comment or test says, and TLC finds the
behaviour of the code that contradicts it:

| Run | Statement | Behaviour found |
|---|---|---|
| `LogoutAfterRefresh` | SECURITY.md:99 "Logout revokes the current device." | an access token made by `refresh` carries no `did`; logging out with it revokes nothing |
| `DoubleRedeem` | SECURITY.md:14 "single-use" | two overlapping redemptions of a sign-up code read `uses_count` 0, both commit 1, two accounts exist |
| `SharedTemporary` | filesystem.py:44 "Write atomically: temp then replace." | two workers share `<hash>.tmp`; one truncates it before the other renames it |
| `UploadDuringDelete` | gifs.py:166 "Only remove the file if no other row references the same content." | an upload that found the file commits its row after the unlink |
| `DeleteDies` | ARCHITECTURE.md:241 "Delete removes the DB row then the file" | the file is unlinked before the commit; a worker that dies in between leaves the row without its file |
| `FormRefresh` | security.py:69 "refreshing tokens if needed" | a form submitted after the expiry refreshes, its redirect drops the new cookies, and the browser is left with the old pair |
| `NoAdminLeft` | users_admin.py:90 "Don't allow deleting the last remaining admin." | two setups at once make two administrators (against SECURITY.md:60, the first-run lock), and two deletions at once count each other and remove both |

The models also show, without a run of their own, that a refresh token two
rotations old is refused without revoking the device (ARCHITECTURE.md:167 and
233 promise the revocation; the row remembers one generation, and the properties
say what holds of it), that of two uploads of the same bytes by one owner that
overlap the later fails at the unique constraint (500, where one after the other
returns the GIF), that lists of names given in opposite orders, a deletion that
crosses an edit (an attach included, when its row is entered and its GIF is
being deleted), and a clearing of codes that crosses a deleted account can
deadlock (the request PostgreSQL aborts answers 500), that two replacements of
one list may leave the union of both, that a client may receive a token pair
whose commit never happens (the reply precedes it), and that of two overlapping
refreshes with one token both succeed and the earlier commit's pair is dead at
once (`previous_refresh_jti` then is not that pair's token).

### Bounds

`TokenLeft` and `DeviceLeft` let a request that may mint begin only while an
unused token and device remain for it and for those under way; tokens and
devices are never reused. Two devices and four tokens allow a login, two
rotations, and a second device or a lost rotation; three tokens a login and two
rotations, or two devices and a rotation. Two requests are two racing ones. For the
console, four tokens are a sign-in and three refreshes, or two sign-ins with a
refresh each; `FormRefresh` needs one device.

`Invites`: code 1 may be of any kind; if it is for signing up it has two uses
and an expiry. That loses nothing, since an expiry need not pass and a code of
one use is code 1 in `DoubleRedeem` and every code for re-pairing. Code 2 is for
re-pairing (the code makes those without an expiry), so a clearing takes it only
after a revocation. Two rows are what crossing locks need. Those who sign up are
not deleted, the member is; `NoDanglingReference` is proved for all.
`DoubleRedeem` has no member, so no code is for re-pairing and each redemption
makes an account.

`Media`: `Owner`, `Gif` and `Inode` are large enough that an upload never lacks
an id: a row, a target and a temporary file per upload under way. Two workers
are what the image starts. Two requests are an upload or a reader against an
upload or a deletion; a third is what `SharedTemporary` has, where a torn file
is read. One content is enough because no step touches two; the proofs hold for
any number.

`Library`: each request runs once and then the system stops, so deadlock in
TLC's sense is not checked; `EveryEditEnds` and `WalkEnds` say instead that
nothing is left waiting. While the client turns pages, or looks for a tag, two
requests do everything that can be done to one GIF (attach and detach, lists in
both directions, deletion, removal of its owner), upload one whose id falls
between those of the old GIFs and whose list has the other order, or delete
another GIF. Before a walk without a tag, there are also two uploads of the same
bytes without a common tag and the removal of the account they are for, and
circles of three: an attach or detach, a list edit, and a deletion (`Third`).
After the walk no request arrives: it would be one that came before it. Pages of
one row make every GIF a cursor.

`NoAdminLeft`: three usernames and two requests are enough for the two crossing
deletions after two setups.

### Fairness

`DeviceSessions`: weak fairness of each request's own steps. An event loop runs
its ready tasks and the database answers. A deletion waits for logins of its
user, and since tokens are bounded these cannot go on for ever. `Invitations`
and `MediaStore`: strong fairness of each request's own steps, since a wait for
a row lock may be interrupted by ever new holders; PostgreSQL queues waiters, so
one for which the lock is released again and again gets it. `Tags`: weak
fairness of a request's statements; each request runs once, so no stream of
newcomers can keep one waiting. The detection of a circle of waits belongs to
the steps of a request, here and in `Invitations` (PostgreSQL looks for one when
a wait has lasted `deadlock_timeout`); `Search`: the client goes on asking.
Nothing forces requests to arrive, workers to die or dates to pass.

`ConsoleSession` claims safety only and assumes no fairness.

## The proofs

The proofs hold for every choice of the constants that satisfies the modules'
assumptions: the sentinels are no members of the sets they extend, ids are
natural numbers, every GIF has an owner, the names of tags and the GIFs are
finitely many, a page has at least one row, and a request names each tag once
(`resolve_tags` removes doubles) and exactly one when it attaches or detaches.

| Module | Theorem | Statement |
|---|---|---|
| `DeviceSessionsProofs` | `SessionInvariant` | `Spec => []SessionInv` |
| | `TypeCorrect` | `Spec => []TypeOK` |
| | `TokensNameOneDevice` | `Spec => []TokenNamesOneDevice` |
| | `ReuseNeedsSpentToken` | `Spec => []OnlySpentTokensRevoke` |
| | `DeadCredentials` | `Spec => []DeadCredentialNeverServed` |
| | `SessionsImplementContract` | `Spec => ImplementsContract` |
| | `DeadTokensStayDead` | a token in force and then not in force never is again |
| | `ClosedDevicesStayClosed` | a device with a session and then none never has one again |
| `ConsoleSessionProofs` | `ConsoleImplementsSessions` | `ConsoleSpec => Spec` |
| | `ConsoleTypeCorrect` | `ConsoleSpec => []ConsoleTypeOK` |
| | `PagesStaySignedIn` | `ConsoleSpec => []PagesKeepSession` |
| `InvitationsProofs` | `InvitationInvariant`, `InvitationTypes` | `Spec => []InvitationInv`, `Spec => []TypeOK` |
| | `CounterWithinLimit` | `Spec => []CountWithinLimit` |
| | `FailuresAreFree` | `Spec => []FailuresCostNoUse` |
| | `NoDanglingReference` | `Spec => []ReferencesExist` |
| | `ClearingIsSafe` | `Spec => ClearTakesOnlyDead` |
| | `RevocationIsFinal` | `Spec => RevocationSurvives` |
| `InvitationsUsersProofs` | `InvitationsImplementAccounts` | `Spec => ImplementsAccounts` |
| `MediaStoreProofs` | `MediaInvariant`, `MediaTypes` | `Spec => []MediaInv`, `Spec => []TypeOK` |
| | `OneRow` | `Spec => []OneRowPerOwnerAndContent` |
| | `RepliesAreWhole` | `Spec => []WholeUnlessShared` |
| | `TornIsTransient` | `Spec => []TornFileIsBeingWritten` |
| | `FilesStay` | `Spec => []FilesLostOnlyIfUndercut` |
| `AccountsProofs` | `AccountInvariant`, `AccountTypes` | `Spec => []AccountInv`, `Spec => []TypeOK` |
| | `SetupGivesOneAdministrator` | `Spec => []OneAdministrator` |
| | `AnAdministratorStays` | `Spec => []LastAdminProtected` |
| `SearchProofs` | `SearchShowsSteadyOnce` | `Spec => []WalkShowsSteadyOnce` |
| | `SearchLeavesLibrary` | `Spec => TagSpec` |
| `TagsProofs` | `TagInvariant`, `TagTypes` | `TagSpec => []TagInv`, `TagSpec => []TagTypeOK` |
| | `TagsChangeAsAsked` | `TagSpec => OnlyAskedChanges` |
| | `LoneEdits` | `TagSpec => LoneEditsExact` |
| | `FailureHasRival` | `TagSpec => FailuresNeedRival` |
| | `SingleEditsSafe` | `TagSpec => []SingleEditsStopForDeletions` |
| | `SomebodyGoesOn` | of finitely many requests under way, one waits for nobody or is in a circle |

### Device sessions and the console

None of these is inductive by itself: what a row holds after a rotation depends
on what the request read before other requests committed. `SessionInv` adds what
the code relies on without saying so: the tokens of a row were minted for its
device and its previous token is spent (`RowInv`); live and spent, open and
closed are disjoint, and unminted tokens are in no history (`HistoryInv`); a pair
about to be committed is new, not spent, and held by one request only
(`PendingInv`); a request that rotates holds a token that was live when it read
the row, for the device it was minted for (`RequestInv`).

Every step of the program is of one of four kinds, and there is one lemma for
each: `ReadStep` (only the request changes), `MintStep` (a fresh token is
signed), `NarrowStep` (rows are revoked or removed) and `CommitStep` (a minted
token is written). `InvStep` goes through the actions and hands each to its
lemma. The refinement has two: `NarrowCloses` (a narrowing is `Close` or a
stutter) and `CommitExchanges` (a commit is `Open`, `Exchange` or a stutter when
the row was revoked meanwhile).

`DeadTokensStayDead` and `ClosedDevicesStayClosed` say what the histories are for
without them: `SpentOrLive` reads off the contract that what stops being live is
recorded, and `HistoryInv` says that nothing recorded is live.

For the console, `ConsoleStep` hands each action of the browser to the server's
step it contains, so `SessionInv` holds under it. `PagesKeepSession` says
something of a browser at rest only; `JarInv` says what holds in between: while
nothing is on record in `causes`, at most one request is under way, and
`Progress` tells how far it has come: its token is live, the minted pair has been
put into the answer or the jar although the row does not know it yet
(`Delivered`), and the row still holds the presented token (`Holds`), so that the
commit makes the delivered pair current. `HistoryInv` excludes that reuse
detection or a refusal meets a live token.

### Invitations

`InvitationInv` ties what a request has read to what the row has become. A row
about to be committed is new: its counter is zero and nobody else can know its
code or have listed it (`CreateOK`). A redemption's view may be old, but the
limit it saw is the row's, its counter is not ahead of the redemptions
committed, and once it has flushed its update the row is locked and stays
(`RedeemOK`): so the counter it writes is within the limit, although it may be a
number already written. What was listed as revoked or expired stays so, since
revocations and dates are final (`ClearOK`). A deletion of an account has listed
every row that refers to it (`DeleteOK`), because nobody can refer to a user
that is being deleted; locks exclude each other (`Apart`). `CreateCommitKeeps`,
`RedeemCommitKeeps` and the other lemmas go through the steps; those that change
nothing but the request share `QuietKeeps`, and `PutKeeps` says what of it has
to be shown.

`ImplementsAccounts` needs one invariant more, `NameInv`: a name that is being
inserted is free and inserted by one request only, and a user who is re-paired
or deleted is there. It is inductive together with `InvitationInv`, which keeps
a deletion apart from whoever refers to its user. `View` is what `Accounts` sees
of a request; a step that leaves the view and the accounts alone is a stutter
(`QuietView`), one that ends a request without writing is a rollback
(`EndView`), and the others have a lemma each (`RedeemView`, `RedeemUserView`,
`RedeemCommitView`, `DeleteUserView`, `DeleteUserCommitView`).

### Media

`MediaInv` has a part for rows and a part for files, and four lemmas say what
keeps a group of its conjuncts: `RowsKept` (rows only go), `FilesKept` (nothing is
written or moved), `LossKept` (no row is new, no path becomes empty and no
request comes to rely on a file or to unlink one), `RequestsKept`.
A step has a lemma that hands each group to one of these, or proves the group the
step disturbs: `OpenFiles`, `WriteFiles`, `ReplaceFiles`, `FlushKeeps`,
`UploadCommitKeeps`, `UnlinkKeeps`.

* `InsertInv`: the unique index makes an equal insertion wait, so a row about to
  be committed differs from every row and every other insertion; its owner's row
  is locked by the foreign key, so the owner stays.
* `PathInv`, `SharedInv`, `TornInv`: paths name inodes of their own; two uploads
  between open and rename use one file only if their content is in `shared`; a
  torn temporary file that somebody may still rename has a writer. Hence a torn
  file reaches its final path only when one upload renames what another is
  writing, and stops being written only when that one ends or dies.
* `FileInv`: an upload that relies on a file a deletion is bound to unlink is on
  record in `undercut`. For every other content what an upload found or stored
  stays, a deletion removes the file only if its row is the last of the content,
  and until its commit that is the only row without a file.

### Accounts

`AccountInv` adds what the two properties need in between: while no two setups
have overlapped, one under way is alone and there is no administrator yet
(`SetupInv`); while no two deletions have counted each other, one that has
counted is alone and the administrator it counted is still there
(`DeletionInv`). A member joins only after a setup has committed (`RequestInv`).

### Search

`WalkInv`: nothing below the cursor has been shown, and every steady GIF from the
cursor up has been shown once. `PageIsUpperPart` (a page and the rows above
its last one are the same) makes the next page preserve it, `LastPageIsAll`
gives the end; `EditKeeps` holds for *any* change of the rows, because `steady`
can only shrink. The theorem therefore depends on no detail of `Tags`.
`SearchLeavesLibrary` is the other direction: the client changes nothing, so
every theorem about `TagSpec` holds of the specification that `Library` checks.

### Tags

What makes these edits hard is that the statements of a request are fixed when it
has read the list, and sent while others commit. `TagInv` says what stays true of
them, whatever was committed in between.

* `PlansOK`: each statement, sent or not, serves what was asked (`Fits`): only
  asked names are created or linked, only names the request wants gone are
  unlinked, only deletions drop. `Precedes` keeps what matters of the order: names
  are found or created before rows are written, and no name is created, unlinked
  or linked twice. A row is linked only to a name that is there, or found or
  created by the same request, and its GIF is checked before the commit.
* `LocksOK`, `UploadsOK`: a row whose GIF was checked keeps the deletion of that GIF
  out until it is committed, and only the removal of an account can meet the id of
  an upload before its commit.
* `MeetsOK`, `CreatesOK`: requests under way have met, and a name that is inserted
  although it is there was committed by one that was met and named it.
* `LonesOK`: for a request that met none for its GIFs or its bytes, the list is
  still the one it loaded, its statements are exactly the difference to the list
  asked for, the owner is there, and the bytes are not, once it has looked for them.

Plans are sequences, and the prover cannot do induction over them. `FirstAndRest`
and `OneAfterTheOther` say what taking the head and concatenation do to the set of
statements and to their order, by indices; `OneForEach` and `ListOfSet` do the same
for a list of names and for the list of a set. `UploadPlan`, `DeletePlan`,
`RemovePlan` and `EditPlan` derive that a plan is in order and serves its request
(`PlanServesOrder`).

A step that sends a statement is a move (`Moves`): the request goes on with
fewer statements ahead, and may hold one more. `MoveKeeps` says what a move
keeps and `SkipKeeps`, `PerformKeeps` and `GoOnKeeps` (another statement about
the same row) apply it for every statement; the other lemmas are `AcceptKeeps`,
`EndKeeps` and `CommitKeeps`, where `CommitWrites` turns the statements held
into the change of the tables. With `TagInv`, `OnlyAskedChanges` is `Fits`,
`LoneEditsExact` is `LonesOK`, and a failure has a rival because a waiting
request waits for one it has met, for a row of its GIF, for its bytes, for its
account, or for a name both were asked for (`WaitsForRival`), and because a
constraint it runs into was satisfied when it had looked (`LoneRowsFit`).

`SingleEditsStopForDeletions` speaks of circles through any number of requests.
A request is shown to be in none by a set closed under waiting it does not
belong to: an attach or detach that holds nothing is waited for by nobody
(`NothingHeld`); one that waits to enter its row holds at most its name, and
those it waits for have written rows, as have those they wait for
(`LateWaitForLate`). What remains is the check of its GIF, which only a deletion
keeps waiting (`SingleEditInCircle`). `SomebodyGoesOn` is the safe half of
`EveryEditEnds`: a smallest set of waiting requests closed under waiting
consists of requests in a circle, so detection never leaves all of them stuck.

## Only model-checked

Liveness (`EveryRequestEnds` of `DeviceSessions`, `Invitations` and `MediaStore`,
`EveryEditEnds`, `WalkEnds`): temporal reasoning with fairness, and
`ENABLED`, are beyond the prover. All invariants and action properties of the
passing runs are theorems.

## Not modelled

* Titles: `PATCH` and the upload overwrite them, the search filters by substring;
  the last commit wins.
* The restriction of listings to an owner, and role checks: a comparison in the
  request, of values that do not change.
* The CSRF cookie and pages of the console that only read; a form that answers
  with a page counts as a page.
* Rate limits (counted by slowapi), logging and redaction (text, and the
  standard library's rotating file), password hashing and the encryption of
  invite codes (libraries), decoding of GIFs (Pillow), settings, health and
  metadata endpoints, error rendering, templates.
* Migrations and the entrypoint run before the workers start; the constraints,
  cascades and the two workers they establish are assumptions of the models.

What would add most next: an abstract specification of the media store (rows that
name contents, without files) and of the library (lists, without statements) that
the detailed ones implement; and titles, if they are ever updated from what was
read.

The hazards of `PROJECT.json` name, line by line, what each property is for.
