# TLA+ models and proofs of TusShare

TusShare is a self-hosted, end-to-end encrypted file sharing server: a FastAPI backend over PostgreSQL and volumes of
blobs (`src/backend/app`), and a browser client that does all the encryption (`src/frontend/js`). The server never
sees a plaintext or a key. What it must get right is the bookkeeping around ciphertexts: which bytes, rows, counters,
grants and wrapped keys belong together while requests, background tasks and several devices of several users
interleave, and while the process may stop between any two awaits.

This directory holds TLA+ modules of that bookkeeping, TLC configurations that check them on small instances, and
proofs that TLAPS checks for every value of the constants. Paths below are relative to `src/backend/app/` unless
they start with `src/`; a bare `x.js` is in `src/frontend/js/`.

Contents: [1 Inventory](#1-inventory) · [2 Modules](#2-the-modules-and-the-code) · [3 Runs](#3-the-runs) ·
[4 Fairness](#4-fairness) · [5 Proofs](#5-the-proofs) · [6 Disagreements](#6-where-code-and-comments-disagree) ·
[7 Not modelled](#7-what-is-not-modelled) · [8 Plan](#8-plan) · [9 How to run](#9-how-to-run)

## 1 Inventory

### What every component rests on

* **Database wrapper** (`database.py:99-160`). Every statement commits by itself unless the handler issued `BEGIN`;
  a transaction runs READ COMMITTED. A request has a pooled connection of its own. Hence: *two statements of a
  handler are two steps* unless a transaction holds a row lock that orders them, and a value selected earlier may be
  out of date when it is used, also inside a transaction.
* **Schema** (`sql/setup/schema.sql`). Uniqueness and `ON DELETE CASCADE` do part of the protocols' work: deleting
  a `files` row removes its chunks, upload row, location, scan-queue entry and file keys; deleting a folder removes
  its files' rows (`database.py:988-996`).
* **asyncio**. Handlers and background tasks share one process and interleave at every `await`; several processes
  may run against one database. File system work runs in threads.
* **Stops**. Rows, blobs and the durable queues survive a stop of the process; tasks and in-memory queues do not.

### The modelled components

| component | state it keeps | operations | what is hard | what makes it correct | modules |
|---|---|---|---|---|---|
| **Resumable uploads** `routes/uploads.py`, `storage/providers/local.py` | `tus_uploads`, `files`, `file_chunks`, locations, `users.disk_used`; staging and permanent files | create, PATCH, finish, abort, expiry | overlapping PATCHes and retransmissions; bytes written before rows; a stop between rename and commit; expiry and abort against a finishing upload | chunks tile the file; the resume point only advances; a complete file is whole and charged once; every upload ends | TusUpload, UploadContract |
| **File store** `routes/trash.py`, `services/trash.py`, `folder_cleanup.py`, `blob_cleanup.py`, `maintenance.py` | `deleted_at`, `blob_cleanup_queue`, blobs, `disk_used` | delete, trash, restore, purge, copy, cleanup worker, repair | copies share a blob; rows and bytes go in different steps; every purge works on rows read earlier | a complete file keeps its bytes; an orphaned blob is queued, and what is queued is removed | FileStore |
| **Batches and direct uploads** `routes/batch_upload.py`, `files.js` | `upload_batches`; the multipart parser; the browser's list of results | register, cancel, progress; POST of several files | two registrations at once; a batch that fails half-way with siblings on disk; a lost answer | the lock follows progress; what the browser lists as stored is stored once | BatchUpload, DirectUpload |
| **Storage volumes** `storage/manager.py`, `routes/admin_storage.py` | `file_storage_locations`, `storage_volumes`, blobs on several volumes | tier pass, reconciliation, reads with failover, volumes made, deleted, made default | a stop while a row is `migrating`; overlapping passes; copies without a location row | a file stays readable while it is moved | StorageTiers |
| **AV scanning** `services/av_scanner.py` | `av_scan_queue`, `files.av_scan_status`, locks | enqueue, claim, verdict, rescans | a slow scan is claimed again after ten minutes; a stop between verdict and lock | a verdict stays; what is infected is locked; every queued scan ends | AvScan |
| **Folders and access** `routes/folders.py`, `_access.py`, `files.py` | `folders`, `permissions`, `resource_role_grants`, `team_folders` | create, move, trash, restore, delete; grant, restrict; search, manifest | check and write of a move are apart; the root pointer is a second statement; five pieces of code decide access | only moves that cross make a cycle; root pointers agree; who may read follows from the rows, and listings lead nowhere else | FolderTree, FolderAccess |
| **Shares** `routes/shares.py`, `services/sharing_rules.py` | `shares`, items, exclusions, pending keys, counters; `sharing_rules` | create, key, exclude, download, visitor upload; rules edited and evaluated | items one by one, flag cleared last; counters claimed after the check; rules active before their conditions | no flagged file is forgotten; limits hold; a share is decided as the rules were meant | ShareKeying, ShareAccess, SharingRules |
| **Team keys** `routes/teams.py`, `teams.js` | `teams.pre_public_key`, `rotation_pending`; `user_team_keys`, `user_roles`, `file_team_keys`; clients' unwrapped keys | invite, confirm, remove, add file keys, rotate, join by link | half of each operation runs in browsers; checks and writes are separate; any member may rotate, with several devices at once | the current key is never lost; every file key opens with it; no slot keeps an old one | TeamKeys, EphemeralJoin |
| **Teams and accounts** `routes/users.py`, `admin_teams.py`, `admin_emergency.py`, `services/trash.py` | `user_roles`, slots, `is_active`, `scheduled_delete_at` | roles, removal, lock, delete, recover, purge, emergency revocation | slots are deleted in one statement and flagged in another; owners change one another at once | a lost slot is followed by a rotation; a team keeps an owner | Membership |
| **Policies** `models/policy.py`, `routes/policies.py` | policies, effects, conditions, grants; rows they write | evaluation at login, sweeps, revocation, key delivery | no transaction at all; evaluations of one user overlap | what matches takes hold, what does not is gone | PolicyGrants |
| **Sessions and step-up** `routes/auth.py`, `auth/jwt.py`, `auth/stepup.py` | `refresh_tokens`, step-up events, `users.is_active` | log in, refresh, log out, revoke, lock, step-up, clean-up | two tabs refresh with one token; a revocation between a refresh's statements | one valid token per login; an ended login stays ended; the failure at the limit locks out | Sessions |
| **Logins** `routes/opaque_auth.py`, `mfa.py`, `admin_mfa.py` | single-use rows of exchanges, credentials, codes | log in, second factor, enrol, recover, change password | a second factor is decided from rows read before the session is stored | one use of the password, one session; a factor is asked | Login |
| **Registration** `routes/opaque_auth.py`, `admin.py`, `main.py` | invites, bootstrap token, `users` | bootstrap, invite, open registration | two second rounds with one token, several workers starting | one first administrator | Registration |
| **Identity providers** `routes/idp_auth.py`, `idp_admin.py`, `auth/oidc_provider.py`, `ldap_provider.py` | `oidc_states`, `identity_provider_users`, challenges | OIDC flow, LDAP bind, provisioning, delinking | two first logins at once; states and codes of another flow | one account per identity, one login per flow | IdpLogin |
| **Events** `services/event_bus.py`, `siem_webhook.py`, `op_bus.py`, `notification_emitter.py` | in-memory queues, subscribers, state gate, channels | emit, drain, fan out, persist, batch, retry | full queues; cancellation between dequeue and write; a gate that drops repeats | order without gaps; what must be written is; the record says what the last check found | EventBus, OpEvents |
| **Settings and audit key** `services/live_settings.py`, `audit_key.py`, `routes/admin.py`, `admin_escrow.py`, `admin_profiles.py` | `admin_settings`, every worker's cache, `K_audit` | get, update, lock, import, start | messages lost or late; writers that bypass the cache; two first starts | workers agree; locks hold | Settings |
| **Roles** `routes/admin_roles.py`, `users.py`, `models/role.py` | `role_permissions`, `user_roles`, `users.is_admin` | create, set flags, grant, revoke, import | `is_admin` follows in a statement of its own; authority is read before the write | an administrator remains; flag locks hold | Roles |

### The other components

| component | what it is | why it has no module |
|---|---|---|
| API keys and service accounts (`auth/api_key.py`, `auth/service_account.py`) | key hashes, last-used buffer | creation and look-up are single statements |
| Rate and bandwidth limits (`middleware/rate_limit.py`, `bandwidth.py`) | sliding windows, local or in Redis | in the plan |
| Request middleware (`middleware/*.py`, `validation/*`) | checks on one request | stateless |
| Database and start-up (`database.py`, `main.py`, schema) | pool, migrations | runs once, alone; what it guarantees is assumed by every module |
| Utilities (`util/*`, `wordlist.py`, …) | pure helpers, detection hooks | no shared state |
| Browser: transfers (`upload.js`, `download.js`, `transfer-manager.js`) | queue of transfers, resume records | its requests are those of TusUpload and DirectUpload |
| Browser: pages (`app.js`, `api.js`, …) | page state | user interface |
| Vendored libraries, build scripts | – | third-party, or run by hand |

Components of the first table are *partly* modelled in the sense of `PROJECT.json`: what is left out of each is named
with its module in section 2. `PROJECT.json` lists every source file, and under `hazards` the places of the code
that tests would hardly reach, each with the properties that would catch it or with the reason why none does.

## 2 The modules and the code

```
TusUpload ───── MCTusUpload ─ TusUploadProofs    one owner's uploads: rows, staging, requests, expiry
  └ implements UploadContract                    what the protocol promises its client
FileStore ───── MCFileStore ─ FileStoreProofs    files after their upload: trash, copies, blobs, quota
TeamKeys ────── MCTeams ───── TeamKeysProofs     one team's key: server tables and the members' devices
Sessions ────── MCAccounts ── SessionsProofs     sessions of one server
  with Login, Registration
ShareKeying ─── MCAccess ──── ShareKeyingProofs  the keys of a shared folder's files
  with PolicyGrants                              policies of one team and one folder
ShareAccess ─── MCSharing ─── ShareAccessProofs  share links: their limits and uploads
  with BatchUpload, FolderTree, FolderAccess, DirectUpload, and TusUpload without overlap
AvScan ──────── MCServices ── AvScanProofs       virus scans
  with StorageTiers, EventBus, OpEvents          the other background services
Membership ──── MCAdministration ─ MembershipProofs   teams and accounts of their members
  with EphemeralJoin, IdpLogin, SharingRules, Settings, Roles
```

**Conventions.** One action is what runs between two awaits at which another task can change what the action reads or
writes: a statement that commits by itself, a transaction (whose effects become visible at once), a file operation.
What a handler selected and still uses later is kept in its record in `task` (`client`, `edit`, `mover`, `scan`, `visit`,
`req`, … elsewhere), with a `pc` that names the next step; this is how a stale read is modelled. `Fail` or `Abandon`
ends a request where a statement may fail, a check refuses, or a client goes away: an open transaction is rolled
back, earlier statements and file operations stay. `Crash` forgets every task and keeps tables and files. Counters
named `left`, `changes`, `edits`, `stops` bound how often administrators, users, failures and crashes disturb a run
and stand for nothing in the code. Variables called *ghost* or *history* record what properties speak of and are
read by no guard, but for such a bound. Operators with a suffix (`Fits_Unchecked`, `Climbs_Past`) that the
specification does not use are changed versions of the definition below them; the `mutants` of `PROJECT.json` put
them in its place to show that a property notices.

**Composition.** An `MC` module extends the component its line begins with and instantiates the others, with constants and
variables whose names tell the component (`rulesRows` is `rows` of SharingRules, read there as `Rules!Present`). The
`…Proofs` module extends the `MC` module where its theorems are about properties that the `MC` module conjoins, and the
component itself otherwise (TusUpload, FileStore, ShareKeying), so that run and theorem speak of the same
definitions; its theorems are about each component's own `Spec`. For the runs the
`MC` module keeps each component's variables apart and lets one of them, `focus`, move in a behaviour: the components
touch different tables, so a behaviour in which several move shows nothing new, and the product would hide the depth of
each behind the size of all. Where components do meet, the meeting is inside a module: Membership has the account handlers
beside the team's, PolicyGrants the team and folder handlers that touch policy rows, ShareKeying the end of an upload and
the daily sweep, AvScan the purges and copies, MCTeams the whole race of five operations.


### TusUpload

| variable | code |
|---|---|
| `file`, `tusRow`, `offset`, `nextChunk`, `expired` | `files` row; `tus_uploads` row, `current_offset`, `next_chunk`, `expires_at < now` |
| `chunks`, `located` | `file_chunks` rows; the `file_storage_locations` row |
| `diskUsed`; `finished` (history) | `users.disk_used`; uploads ever set complete |
| `staging`, `blob` | `UPLOADS_DIR/upload_id`, `FILES_DIR/storage_key`: sequences of units, each the chunk that wrote it or `Hole` |
| `task`, `sweep` | handler tasks; the expiry task |

`CreateCheck`/`CreateRows` are `create_upload` (quota read, then the rows); `PatchSelect` → `PatchBody` →
`PatchOpen` → `PatchWrite` → `PatchRecord` are `patch_upload` and `_write_at`; `FinalizeRename` → `FinalizeLocate` →
`FinalizeMismatch` or `FinalizeCount` → `FinalizeCommit` are `_finalize_completed_upload`; `AbortSelect` →
`AbortRows` → `AbortBlob` the DELETE; `SweepSelect` → `SweepRows`/`SweepSkip` → `SweepBlob` the hourly expiry.

A descriptor opened on the staging path stays with the file when that is renamed or unlinked (`fd`, `Moved`,
`Unlinked`): a late write goes to the permanent file or nowhere. A retransmitted chunk is a different payload,
because the client encrypts it again under a fresh IV (`src/frontend/js/upload.js:259`); `Ciphers` are the IVs. The
AV queue entry written with the completion refers to the `files` row, so the completing transaction cannot commit for
a file deleted after its chunk rows were counted (`Queueable`).

Abstractions: sizes are counted in units and a chunk other than the last is one unit; one identifier stands for the
upload row, its `files` row, the staging path and the storage key, each of which is a fresh UUID; one owner; `exists`
and `open` in `_write_at` are one step; deletions of an incomplete file by other handlers act like an abort; HEAD and
the list of pending uploads only read; batch counter, share keying and the scan itself belong to other components.

Properties. `ChunksTile`: the UPDATE of `current_offset` has no condition, so it rests on
`UNIQUE(file_id, chunk_index)`. `CompletionIsWhole`, `ChargedOnce`: through overlapping finishes, aborts, sweeps and
stops. `EveryUploadSettles`: also an upload whose staging file is gone. `RecordedBytesAreHeld`,
`CompletedReadsBack`: what the tables say was received is on disk; they hold when the PATCHes of an upload do not
overlap (part of `UploadsReadBack`), and not when they do (section 6).

**UploadContract** is what the protocol promises whoever uploads: an upload begins, holds more and more of its bytes,
is completed and charged when it holds all of them, in one step, or is removed. TusUpload implements it under the
mapping that forgets staging, chunks, tasks and locations (`KeepsContract`): a resume point that went back, a
completion that charged later than it completed, or a removal that gave back what another one was charged for would
not map to any step of it. `ContractKept` proves the same for every instance.

### FileStore

| variable | code |
|---|---|
| `row` | `files`: active / trash / gone, `upload_complete`, `storage_key`, `folder_id`, its chunk rows |
| `folder` | `folders`: active / trash / gone |
| `blob`, `queue`, `used` | blobs on the volume; rows of `blob_cleanup_queue` per key; `users.disk_used` in files |
| `task`, `cleaner`, `ledger` | handlers with what they selected; the cleanup worker; the total the repair computed |
| `late`, `leaked` (history) | copies of a row that was already gone; keys orphaned, or kept, unqueued |

`Upload*` and `Abort*` are TusUpload at a coarser grain. `Delete*`, `Folder*`, `Restore*`, `Purge*`, `Empty*`,
`Copy*` are the handlers of `routes/files.py`, `folders.py`, `trash.py` and the hourly `_purge_expired`;
`QueueTree` and `DropTree` are the two statements of `hard_delete_folder_tree` (the blobs that are seen are queued, the
cascade takes what is there by then) and `TreeFails` its rollback; `Cleaner*` is `run_blob_cleanup_worker`; `Reconcile*` is
`_reconcile_disk_usage`.

Abstractions: one owner and volume, equal sizes, folders that hold files but no folders, no moves, no deletion of
users or teams; a handler's reads of a row and of its parent folder are one step.

Properties. `FilesKeepTheirBytes`: a complete file has its blob and chunk rows however its copies come and go; the one
exception, a copy written after its source row had been deleted, is what the history `late` names.
`UnreferencedIsQueued`: no orphaned blob is forgotten, but in five ways the code has and `leaked` names: aborting an
upload whose bytes had been moved, moving bytes after the row has gone, the last statement of `empty_trash`, the
deletion of a folder into which a file was copied, restored or uploaded after its blobs were queued, and an unlink whose
failure `delete_blob_direct` swallows. `QueueDrains`: under fairness of the worker.

### TeamKeys

| variable | code |
|---|---|
| `pk`, `pending`, `member`, `active` | `teams.pre_public_key`, `rotation_pending`; `user_roles` rows; `users.is_active` |
| `slot` | `user_team_keys`: the key wrapped in it, `key_confirmed` |
| `file` | `file_team_keys`: the key that opens `pre_c1`, the envelope it belongs to, and the one `encrypted_file_key` belongs to |
| `client` | what each device is doing: the operation, where it is, the keys and rows it has read |

`Rotate*` is `_performRotation` in the browser and `rotate_team_keys` on the server: read the own slot, fetch file
keys and members, post; the server validates (`RotateValidate`) and later writes (`RotateCommit`). `Confirm*` is the
Schnorr proof of possession, `Add*` the sharing of a file with the team, `Invite*` and `Remove*` their three
statements each, `Deactivate` the deletion of an account, `DropFile` a file that leaves the team.

Cryptography is symbolic: a key opens what was encrypted to it, a proof holds for exactly the key it was made with, a
proxy re-encryption turns a ciphertext of the key its re-encryption key was made from into one of the new key and
anything else into `Lost`. A key nothing refers to any more is as good as new, which makes a few keys stand for
unboundedly many rotations.

Abstractions: the server's validation reads are one step; a client does one operation at a time; posts of several
files are one per file; `Deactivate` merges its read of the team list with its transaction; locking by
`_handle_activation_change` and emergency revocation do the same statement by statement; escrow agents, policy
grants, custom roles, several roles per user, ephemeral slots and team deletion are left out. `Racing` names the
operations that may overlap: properties that fail under every race are checked with the races under which they hold.

Properties. `OwnerHoldsKey` (`OwnerKeepsKey` in MCTeams) with everything racing: the team's current key is never lost.
`FilesOpen`, `SlotsCurrent` with rotations and confirmations racing from several devices: of two rotations verified
against one key the last to commit overwrites all that the first wrote. With files or removals racing a rotation they
fail (section 6).

### Sessions

| variable | code |
|---|---|
| `row`, `age` | `refresh_tokens`: absent, live, `revoked = 1`, deleted; idle (`last_active_at`) or past `expires_at` |
| `active`, `failures` | `users.is_active`; `step_up_failed` events since the last granted or lockout event |
| `task`, `reaper` | handlers; the clean-up that runs every minute |
| `login`, `ended`, `cut` (history) | the login a token descends from; logins with a token revoked other than by its refresh; a lockout that was due was lost |

`Login*` is any login flow, all of which end in `store_refresh_token`; `Refresh*` is `POST /auth/refresh`, a
transaction of four statements; `RevokeAll`/`RevokeApply` are `DELETE /me/sessions`, password change, recovery and
reset; `RevokeOne` is logout and the deletion of one session; `Lock`/`LockRevoke`/`Unlock` the administrator's;
`StepUp*` is `POST /auth/step-up`; `Touch` and `Reap*` are `touch_session` and `run_token_cleanup`.

The granularity is PostgreSQL's READ COMMITTED: a row being replaced is held by its refresh (`Held`), an UPDATE of
one row waits for the holder and looks at the row again, an UPDATE of many rows has a snapshot (`todo`), waits for the
rows in it and does not see rows committed meanwhile. A request may present any token ever issued, which covers
retries, lost answers and several tabs.

Abstractions: one user; expiry and idleness are one `age` per row; access tokens live five minutes and are not
modelled, so a request may come from a session that has ended; deletion of the account and emergency revocation act like
`Lock`, multi-factor administration like `RevokeAll`; a deadlock that PostgreSQL ends is `Fail`; `step_up_max_failures`
does not change.

Properties. `OneLivePerLogin`: of requests that present one token only one gets a successor. `EndedStaysEnded`: a
refresh that has read a token does not bring back a login that was revoked, idle or deleted before its claim.
`LockoutFollows`: recording and counting a failure are two statements, and still the failure that reaches the limit
locks out unless its request died or the record of the lockout was lost.

### BatchUpload

| variable | code |
|---|---|
| `upload`, `of` | `tus_uploads`/`files` of a batch: open, full (last chunk recorded, not yet completed), complete, deleted; `batch_id` |
| `batch`, `order` | `upload_batches`: `total_files`, `complete_count`, `lock_released`, `status`; the ids by `created_at` |
| `task`, `finished` | handlers; history: the uploads whose completion committed |

`Register*` is `batch_register`: the latest active batch is read, then the clock, then all rows in one transaction.
`FinishBegin`/`FinishCommit` are the last PATCH of an upload, of which TusUpload has the detail; `Progressed` is the
UPDATE of the batch in its transaction. `Cancel*` is `cancel_batch`, whose list of uploads is read before its
transaction. `Remove` is an abort, the expiry, or a deletion of the file. A full upload whose finish failed is never
finished again, since a PATCH must carry bytes (`uploads.py:431`).

Abstractions: one user; sizes, names and quotas of the entries; the blobs, which TusUpload and FileStore have;
`begin_upload` of the new uploads, and `abort_upload` after a cancel.

Properties, run together as `BatchLock`. `LockFollowsProgress`: through aborts, expiry and cancels that race a
completion. `PacingLock`: looking at the latest active batch alone is enough, when registrations do not race.


### DirectUpload

`POST /uploads/batch` and the browser that uses it. `post` is one request with its multipart `parts`, how many of them
the server has `read`, and what it found `bad`; `stored`, `blob`, `used` are the committed rows, the blobs and
`users.disk_used`; `told` is what the browser lists of each file, `lost` the ghost that names files whose answer never
came.

`Send`, `Disconnect`, `Answer` are `_executeBatchUpload`; `Spoil` lets the body differ from what it says of itself
(clients other than this browser); `Read` is one step of the multipart parser with its size and order checks;
`Refuse`, `Begin` the quota check that precedes the transaction; `InsertFile`/`InsertFails` one file of `_write_batch`
with its blob, `Commit`/`CommitFails` its end. A file reported as an error is sent again by itself (`Posts`).

`AnswersAreTrue`: the rows and charges a rollback takes back, and the blobs it cannot, against what the browser was
told. It is checked with TusUpload's serial properties as `UploadsReadBack`.

### ShareKeying and ShareAccess

A link share is seen from two sides. **ShareKeying** has what it offers: `items`, `excluded`, `pending` are the three
tables, `share` its life, `plan` what its creating transaction will commit, `client` a browser that posts the keys of
items one by one, `reader` a visitor's page. Operations are the handlers of `routes/shares.py`, the end of an upload into
a shared folder (`FinishUpload`), trash and purge, the 90-day sweep (`SweepPending`), and whatever takes from the creator
the right to read a file of somebody else (`LoseOrRegain`). Every statement but the two transactions commits alone, so an
`InsertItem` can be left without its `ClearPending`. A visitor opens the link (`OpenLink`) and comes for a file it showed
(`AskFor`). Both begin with `_verify_creator_still_has_access`, a query for the items (`ListItems`) and a check of each by
itself (`CheckItem`, `Refuse`); then come the listing's queries (`ListFiles`) or the download's (`FindItem`, `FindCover`,
`Serve`).

* `ObligationKept`: a file somebody flagged as waiting for the share's key has its item or is still flagged. The ghost
  `due` is what was flagged, `dropped` what a manager took out or the sweep gave up.
* `ShownIsServed`: the listing and the download look for a file by different queries, with the creator's access checked
  anew in between. A file shown is refused only for one of the reasons `spoilt` collects: the file was taken out, excluded,
  trashed or purged, the share was switched off or ended, or the re-check met an item it refuses.

**ShareAccess** has one share in use: `share` is its row with both counters and limits, `visit` what each visitor's
request has read and claimed, `used` and `blob` the creator's quota and disk, `slug` the short link, `access` the files
of others the creator can still read. A request reads the row once; the two counters are claimed by conditional UPDATEs at
its end (`Count`, `ClaimUpload`), after which its row or stream can still fail (`CleanBlob`, which may itself fail, and
`Crash`). A purge reads the file's row and deletes and refunds later (`PurgeRead`, `PurgeFile`), so that two of one file
refund twice; `again` has those files.

* `LimitHolds`: `download_count` is the number of downloads served that count, and never exceeds the largest limit the
  share has had.
* `UploadsAccounted`: the budget used is what visitors stored; `disk_used` is the size of the creator's files, unless a
  file was refunded twice, and then it is less, never more; bytes that no row has belong to an upload under way, to one
  that was cut off, or to one whose removal failed.

Left out: recipients other than one user, passwords and rate limits, the content of manifests.

### FolderTree and FolderAccess

**FolderTree** has `state`, `parent` and the denormalised `root` of each folder, and any number of requests.
`CreateRead`/`Insert`, `MoveRead`/`MoveParent`/`MoveLook`/`MoveRoot` and `RestoreRead`/`Restore` are handlers that read and
then write in statements of their own; `Trash` and `HardDelete` are transactions. A request is `late` when, after it has
read, another one moves its folder or a folder above its destination; `crossed` are the folders a late request wrote,
`adrift` those a restore left with their old root, `torn` those whose move was cut short (`Crash`, or `Endless`: the
cascade over a cycle that the database gives up).

* `NoCycle`: every walk up ends at a top, or meets a folder in `crossed`. So two moves make a cycle only where one changes
  what the other has checked before that one writes, and nothing else makes one, in whatever order.
* `RootsKept`: the recorded root is the top, but at and below folders that are adrift, torn or crossed, and while a move is
  under way. The two together are `TreeKept`.
* `RootsAgree` is what `schema.sql` says of the column and is the property of the run `roots`.

**FolderAccess** has the grants: `closed` (restricted folders), `grant` (permissions rows, which allow or deny, copied to
new subfolders and moved files as the code copies them), `role`, `team`, whether the level of the user's role lets him
read nothing (`mute`), and whether his slot is confirmed (`keyed`). Each request is one step. The five deciders are
translated one by one: `MayRead` (`check_data_permission`, a walk up that ends at a yes, at a row that denies or at a
boundary; `Grants`, `Refuses`), `TeamMember`, `HasPermission`, and the two trees that search and manifest grow down,
`ListedByRow` and `ListedByTeam` (`Grow`).

* `ReadIsGranted`: the chain is equivalent to a declarative statement of which rows grant, with boundaries and denials.
* `ListedMayRead`: whatever the other four say is covered by the chain, but for two cases in which they do disagree: below
  a row that denies, which only the chain honours, and in the listings of a team whose role lets the user read nothing
  (together `AccessFollowsRules`; section 6).

Left out: levels other than read, several users and roles.

### StorageTiers

`volume` and `flagged`: the rows and their `is_default`; `loaded` and `default`: the providers the manager holds, and the
one it falls back on, which is another volume when the flagged one cannot be loaded (`LoadSkips`); `loc` and `at`: where
the rows say bytes are, and where they are; `mover` one pass of tiering or reconciliation. `migrate_tier` is taken apart
at each of its statements: `FindSource` → `Mark` → `CopyBlob` → `Verify` → `Promote` → `EraseSource` or `EraseFails` →
`DropRow`, with `MarkFailed` and `GiveUp`. `OriginalsRead`: a file that was uploaded, and not copied, can be read wherever
the pass stops, fails or crashes, and whatever volume is made the default, as long as the manager has loaded its volumes.
Two kinds of files are excepted by the ghost `astray`, and section 6 says what becomes of them: those two passes were at
together, and those whose primary volume was not loaded when a pass looked for it, so that the pass took the default
volume for the source. The run has one mover and `TiersChanges` = 5; eight changes with one mover (809 k states), and
four with two movers (1.4 M), show nothing else.

### AvScan

`status`, `locked`, `queue` are columns and rows, `scan` the runs of `scan_file`, whether of a worker (claimed with
SKIP LOCKED, reclaimed by `Recover` after ten minutes) or of a bulk rescan. `Load` → `Begin` → `Ask` → `Write`/`Raise`
→ `Lock` → `Close` are its statements; a failed `Write` raises nothing, and the scan goes on to lock (`WriteFails`).
`contested` and `excused` are ghosts for the overlaps and lifted locks that the properties except.

* `VerdictsHold`: an infected file is locked or a scan is about to lock it; a definitive verdict is not overwritten by
  another.
* `QueueSettles`: every queued scan is completed or given up in the end, across crashes.

### EventBus and OpEvents

**EventBus**: `queue` and `drainer` are `_write_queue` and the drain loop, `sub` the bounded queues of subscribers,
`siem` and `sends` the webhook dispatcher. One event loop, so a step is what runs between two awaits. `Cancel`,
`Flush`, `FlushKept`, `Stop` are the shutdown. `InOrder`: a subscriber misses only a tail. `EventsRecorded`: what the bus
writes is in the end in the table or named in `lost` (together `EventsArrive`). `Dispatch`, `IdleReload`, `SendBatch` and
`SendFails` follow the dispatcher's batches, whose losses are in section 6.

**OpEvents**: `gate` lets one warning pass per resource until it has recovered; `chan`, `task`, `awake`, `created` are
the channels, the tasks that serve them and the supervisor that starts and stops them. `RecordFollowsChecks`: once the
queue is empty, the last row of a resource says what its last check found; `blurred` names resources whose gate was set
without a row, or forgotten by a restart.

### Sessions, Login, Registration

Sessions is above. **Login** has one account: the rows of the OPAQUE exchange (`start`, with the record they were
`seen` under), pending tokens (`pending`), challenges (`chal`), factors (`cred`, `codes`, `reset`, `prf`) and the sessions
that result (`live`, `minted`). `LoginStart` → `LoginFinish` → `ReadReset` → `ReadMethods` → `StorePending` or `Issue`
is the password; `Peek` → `VerifyTotp`, `ReadCodes`/`StrikeCode`, or `Begin`/`AssertKey` → `Consume` → `Issue` the second
factor, each verb with the order of statements its handler has (WebAuthn consumes first). Enrolment, removal by the user
and by administrators, wipe, recovery and change of password are actions beside them.

* `OneSessionEach`: one use of the password makes one session, though pending token, recovery code and OPAQUE row are
  consumed in three different ways.
* `FactorAsked`: a session issued on the password alone went to a login that was under way at a moment when the account
  had no active factor.

**Registration** has users and invites, the bootstrap token and the open-registration switch, each read by a second
round (`*Look`) and written by its transaction (`*Commit`). `Start*` are the three statements of `_bootstrap_admin`, run
by every worker that starts: count, look, write; the token of a start is known once it is logged, and a later write
replaces it. `OneBootstrap`: one administrator is made, whatever starts and rounds overlap. That no token is left once
there is an account does not hold: a slow start writes one after it; it is in nobody's hands, and whoever reads it in
the log afterwards is told that the bootstrap is complete. Accounts are not deleted.

### PolicyGrants

`policy`, `effect`, `conds`, `sat`, `locked`, `exempt` are what administrators and directories change; `role`, `slot`,
`acl`, `tgrant`, `fgrant` what evaluations write. An evaluation is `Load` → `WriteRole`/`WriteGrant`/`WriteAcl`/
`WriteFolderGrant` per effect → `RevokeSelect` → `RevokeRows`/`RevokeGrants`, statement by statement, without a
transaction; logins and sweeps start any number of them. Team handlers that touch the same rows (`Invite`, `Remove*`,
`MoveFolder`, `Rotate`, `DeliverCheck`/`Deliver`) run beside them.

`PoliciesTakeHold` (liveness): after the last change, the user has what the organisation's policy grants, with the key,
and no row of a policy that does not match or of an effect that is gone. Abstractions: the reads of one
evaluation are one step; `Login` is a login after the debounce; agent and escrow effects, key versions, several role
levels and folders outside the team are left out.

### Membership

One team with its `owner`, `roles`, `custom` role, `slots` and rotation flag (`pending`), and the accounts behind it
(`account`, `leaving`). `task` holds what a request still has to do: `UpdateRole`/`UpdateWrite`, `AddRole`/`AddWrite`,
`RemoveRole`/`RemoveRoleWrite`, `Invite*`, `AdminAdd*`, `DropRoles`/`DropSlot`/`Flag`, `Deactivate`, `List`/`Mark`/`Strip`
of the emergency, the deletion and hourly purge of accounts and teams. `Rotate` gives a slot to the members there are.

* `SlotLossFlagged`: whoever loses a slot leaves a flagged rotation behind, whichever of eight handlers took it; `missed`
  names the three ways that leave none.
* `OwnerRemains`: requests of members never take the last owner's role, whichever role their checks see; `lastly` is
  what took it.

### EphemeralJoin

A supervisor's link carries the team key for whoever opens it (`link`, `wraps`). `Open` → `FetchLists` → `Check` →
`GrantRole` → `UpdateFiles` → `DeleteKeys` → `InsertKeys` → `SetKey` → `ConsumeSlot` is the join, a request without a
transaction; `Expire`, `AddFile`, `Invite`, `Remove`, `Confirm`, `Rotate` are the others. `JoinIsWhole`: a join that
completes leaves every member and file with the new key and its link used; `lost` names whom a cut, an overlap or an
outdated list may have left without. `LinkLetsAsk` is the property of `join_page`.

### IdpLogin

`states`, `code`, `spent` are the OIDC flow between server, browser and provider; `users`, `link` the accounts and
mappings; `chal` the challenge store of one process. `OidcBegin`, `Authenticate`, `OidcCallback`, `Consume`,
`Exchange`, `LdapLogin`, `LdapAuthenticate`, then `FindUser` → `Insert`/`RetryUser` → `Issue`, and the removal in two
statements (`Delink`, `DeleteProvider`).

* `OneAccountEach`, `FlowsKeptApart` (together `LoginsKeptApart`): concurrent first logins and two subjects with one
  username end in one account per subject, and a flow in at most one session, for whoever authenticated in it.

### SharingRules

`rows` are the rules and `conds` their conditions, two tables; `edit` what an administrator's request still does: its
statements (`todo`), the conditions it still inserts (`adds`), its `rule`, and in `late` the rules others have written
since it was checked. `Create`, `Update`, `Delete`, `Replace`, `Merge` are the checks of a request, `Insert`,
`Condition`, `Amend`, `Drop`, `Remove` its statements. `eval` is the evaluation of a share or a dry run, which reads
the rules in one statement (`Select`) and the conditions of each in another (`Loop`). `Compare`, `Met`, `Fires`,
`Verdicts` are the rule language.

* `RulesDecide`: a decision no edit overlaps is the one the last completed requests meant (`meant`); `torn` names rules a
  request left half written, or that two wrote.
* `AuthorityKept`: no statement writes to a rule that was locked above the one who asks when he was checked, or places
  a rule before a locked one of a more privileged administrator. Tier 1 is exempt from locks, here and in the two
  modules below: what a server administrator imports or applies from a profile looks at no lock, and only a body that
  no page makes carries a lock tier below 1.

### Settings

`value`, `lock`, `audit` are the table, `cache`, `inbox`, `snap`, `mine` what each worker holds; `phase` how far its
start has come. `PutRow`, `PutLocks`, `Import`, `UpdateEscrow` write the table; only `UpdateSettings` goes on to `Cache` and
`Publish`. `WorkersAgree`: workers read what the table has, up to `stale`, which collects what they were
never told of. `LocksHold` (in `AuthorityKept`): a setting locked above an administrator keeps its value and its lock in
every statement of his requests, with these exceptions, which are the code's and are written out in the property:
locks that changed after his check (`unchecked` collects them); the escrow rows besides the one whose lock the request
samples, which are in `unchecked` from the start; and the locks, never the values, that PUT /settings/locks sets. The keys
of one escrow request are distinct, as they are the fields of its body.

### Roles

`perms`, `granted`, `isAdmin` are roles, holders and the copied column; `req` a request with the authority its user had
when it began (`rank`), the statements left, and the flags others have written since (`unchecked`). `AdminsRemain`: the
tier-1 role keeps a holder and `is_admin` follows the roles; `FlagLocksHold` counts every statement of every page: a
flag locked above the tier a request acts with stays as it is, unless it was written after the check. Against
`admin_roles.py:13-14` ("only admins with role_tier <= locked_min_tier may modify that flag's value or lock state") two
pages look at no lock, and the property says what they may do: that of the sharing capabilities changes the value and
leaves the lock, and a deleted role takes its flags along. With SharingRules' floor and locks and Settings' `LocksHold`
it is `AuthorityKept`.

## 3 The runs

All runs use `-workers 2` and end within about four minutes. Deadlock checking is off in every configuration: a
system whose identifiers are used up, with no request and nothing to clean, may rest.

| run | instance | distinct states | shows |
|---|---|---|---|
| `tus_overlap` | 1 upload of 2 units, 2 requests, 2 IVs, quota 4, PATCHes overlap | 525 k | `TypeOK`, `ChunksTile`, `CompletionIsWhole`, `ChargedOnce`; the refinement `KeepsContract`; under `FairSpec`, `EveryUploadSettles` |
| `store_races` | 2 files, 1 folder, 2 requests; uploads at the root | 927 k | `FilesKeepTheirBytes`, `UnreferencedIsQueued` |
| `store_drain` | 1 file, 1 folder, 2 requests | 192 k | under `FairSpec`, `QueueDrains` |
| `teams` | 2 users; *rotations*: 3 devices, 1 file, 3 keys, rotations and confirmations race; *races*: 2 devices, 1 file, 4 keys, 2 envelopes, everything races | 370 k | `FilesOpen`, `SlotsCurrent` in the first; `OwnerKeepsKey` in the second |
| `access` | ShareKeying: 2 files, 2 folders, 1 client, 1 visitor, 2 changes and 1 more during the visit; PolicyGrants: 1 user, 1 policy of the organisation with 2 effects, 1 of a team with 1, 2 tasks, 2 changes | 780 k | `ObligationKept`, `ShownIsServed`; under fairness, `PoliciesTakeHold` |
| `accounts` | Sessions: 3 tokens, 2 requests, limit 2, at most 3 failures; Login: 2 proofs, 1 TOTP, 1 key; Registration | 523 k | `OneLivePerLogin`, `EndedStaysEnded`, `LockoutFollows`, `OneSessionEach`, `FactorAsked`, `OneBootstrap` |
| `sharing` | ShareAccess: 3 visitors, 2 purges, quota 2; BatchUpload: 2 batches, 3 uploads; FolderTree: 3 folders, 2 requests, `TreeMoves` = 3; FolderAccess: 3 folders, `RightsChanges` = 3; TusUpload: 3 units, 3 requests, serial; DirectUpload: 3 files, 2 batches, quota 3, 2 faults | 898 k | `LimitHolds`, `UploadsAccounted`, `BatchLock`, `TreeKept`, `AccessFollowsRules`, `UploadsReadBack` |
| `services` | StorageTiers: 3 volumes, 2 files, 1 pass, `TiersChanges` = 5; AvScan: 2 files, 2 workers; EventBus: 4 events, queues of 2; OpEvents: 1 resource, 1 channel, `OpsChanges` = 3 | 179 k | `OriginalsRead`, `RecordFollowsChecks`, `VerdictsHold`; under the fairness of AvScan and EventBus, `QueueSettles`, `EventsArrive` |
| `administration` | Membership: 3 users; EphemeralJoin: 3 users, 2 files, 1 link; IdpLogin: 2 flows, 2 subjects of one username; SharingRules: 2 administrators, 2 rules, 3 profiles; Settings: 2 workers, 3 keys; Roles: 3 users, 3 system roles and a custom one, 4 flags | 620 k | `SlotLossFlagged`, `OwnerRemains`, `JoinIsWhole`, `LoginsKeptApart`, `RulesDecide`, `WorkersAgree`, `AdminsRemain`, `AuthorityKept` |
| `tus_idempotent` | TusUpload with overlap | violation | `CompletedReadsBack` (section 6) |
| `roots` | FolderTree, 3 folders, 1 request, 3 changes | violation | `RootsAgree` (section 6) |
| `join_page` | EphemeralJoin, 2 users, 1 file, 1 link | violation | `LinkLetsAsk` (section 6) |

Identifiers of one kind are symmetric in `store_races`, `teams`, `accounts`, `sharing` and `administration`, where no
temporal property is checked. `store_races` and `accounts` use views (`Rows`, `View`) that drop components no action
and no invariant of the run depends on.

**Why the bounds show something.** Two units make a first and a last chunk, which differ in every check of the PATCH,
and two requests make every pairwise race; a third request and unit (`sharing`) add a chunk that is neither, and an
abort next to a PATCH. Two files are a source and its copy. Two users of a team are the owner, who cannot be removed,
and a member, who can be in every half-done state; two devices of the member and one of the owner give three concurrent
rotations, and a key nothing refers to any more is used again. Three tokens are a login, its successor, and a second
login or a successor's successor; a limit of two makes the failure before the limit differ from the one at it. Three
folders in a row make a parent that is neither top nor leaf, and with two requests the cycle of two moves that cross; a
third user of a team is the one two others decide about. Three volumes are needed for a move whose source is not the
default. Three visitors are one more than a limit or a budget of two lets through. Two administrators differ in tier,
so that one is refused where the other is not.

**Named bounds.** `Size`, `Quota`, `MaxFailures` are parameters of the system. `FailureCap`, `Changes`, `MaxChanges`,
`RightsChanges`, `OpsChanges`, `TreeMoves`, `TiersChanges`, `LeftToVisits`, `Edits`, `Stops`, `Faults`, `Attempts`,
`MaxKeys`, `Total`, `Room`, `ChannelRoom` and `Asked` bound how often users, administrators, failures and crashes
intervene, or how much the constants of the code allow; the constraint `UploadsAtRoot` of `store_races` keeps uploads
at the root, where copies may go to either place. The theorems of section 5 hold without any of them.

**Properties that are conjunctions.** `VerdictsHold` is `InfectedIsLocked` and `VerdictStays`, `EventsArrive` is
`InOrder` and `EventsRecorded`, `LoginsKeptApart` is `OneAccountEach` and `FlowsKeptApart`, `AuthorityKept` is that of
SharingRules with `LocksHold` and `FlagLocksHold`, `BatchLock` is `LockFollowsProgress` and `PacingLock`, `TreeKept` is
`NoCycle` and `RootsKept`, `AccessFollowsRules` is `ReadIsGranted` and `ListedMayRead`, `UploadsReadBack` is
`RecordedBytesAreHeld`, `CompletedReadsBack` and `AnswersAreTrue`. Each module keeps the parts, one by one.

**Stated, and not in a configuration.** The `TypeOK` of components that the composed runs instantiate.
`SharedBlobsSurvive`, `FilesAlwaysOpen`, `RotationCompletes`, `NeverLost`, `OldPasswordOut`, `PrfIsActive` and
`InviteOnce` say what a comment promises and the code does not keep; TLC finds each violated when it is added to a
configuration of its module, with the counterexample section 6 describes. `BatchedOnce` holds.

Every property of a passing run has a mutant in `PROJECT.json`: a plausible bug in a modelled definition under which
that run finds the property violated.

## 4 Fairness

No request, client or administrator is assumed fair: they may vanish at every step. What is fair are loops that the
code runs for ever.

* **Uploads.** `WF(Expire(u))`: time passes for an upload nobody continues. `WF(SweepSelect)`, `WF(SweepBlob)`: the
  loop `run_upload_cleanup` goes on. `SF(SweepRows(u))`: the process does not stop, and the transaction does not fail,
  in every one of its hourly passes.
* **File store.** Strong fairness of each step of the cleanup worker, which runs every five minutes and at every start:
  not every one of its passes is cut short. An unlink that fails counts as a step, since the code goes on.
* **AV scan.** A run under way goes on (`WF`), stale rows are taken back (`WF(Recover)`), and a worker that polls for ever
  gets to claim (`SF(Claim)`), as claims compete for rows.
* **Event bus.** `WF` of the drain loop: it is one task of an event loop.
* **Policies.** A started evaluation goes on unless it is cut short (`WF(Continue)`); users log in again and again, and the
  owner's client delivers keys again and again (`SF(Login)`, `SF(Deliver)`). That an evaluation takes place *at login* is
  the mechanism the code relies on for everything the failed ones left behind, which is why a property about policies
  needs it.
* **Team keys.** `Fairness` serves only `RotationCompletes`, where generous fairness strengthens the counterexample.
* **Sessions, shares, folders, administration.** Safety only: nothing there is driven by a loop but the minute's
  clean-up.

## 5 The proofs

The eight modules `…Proofs` of the diagram in section 2 hold for every set of identifiers, every size, quota, limit and
bound that satisfy the named assumptions of the modules (`SizeAssumption`, `FilesAssumption`, `MaxFailuresAssumption`,
…; `ConstantsOK` where the component is also instantiated), which TLC evaluates in the runs. Each has the shape: an
invariant, one lemma for each action or group of actions that keeps it, and the theorems `Spec => []Property` from it.
Five of them go on to the components that their `MC` module instantiates, with the `Spec` of each (`Batch!Spec`,
`Rules!Spec`, …) in place of `Spec`. The paragraphs below say what each invariant adds to the property, which is what
makes it inductive.

**Uploads** (`Spec => []IInv`, then each property). Neither `ChunksTile` nor `ChargedOnce` is inductive: a PATCH writes
offset and index that it read earlier. The invariant `IInv` adds

* `TaskInv`: a task's upload and chunk are typed, what was accepted fits, a descriptor names a file that exists;
* `RowInv`, `CreateInv`: the upload row exists exactly while the file is incomplete; a fresh identifier is known to one
  task;
* `RegularInv`: chunks but the last are one unit;
* `StaleInv`: what a PATCH read of the resume point is still true, *or its index has been recorded since*. This is the
  heart: in the second case `UNIQUE(file_id, chunk_index)` refuses the row, so a PATCH that gets past the INSERT read
  the current resume point, and the unconditional UPDATE can only advance it;
* `FinalInv`: at most one request finalizes an upload, and until the file is deleted its offset is the size.

From it: `TypeCorrect`, `ChunksAlwaysTile`, `CompletionAlwaysWhole`, `AlwaysChargedOnce`, `OffsetsAdvance` (an action
property), and `ContractKept`: TusUpload implements UploadContract. Its initial states map to initial states; each
action is either a step of the contract (`CreateRows` begins, `PatchRecord` receives, `FinalizeCommit` completes, the
deletions remove) or leaves `stage`, `held` and `charged` alone. That a received chunk never moves the resume point back
is `StaleInv`; that completion happens with everything held is `FinalInv`.

*Without overlapping PATCHes* (`~Overlap`, what the browser does as long as no request of its outlives a retry),
`BytesHeld` and `ReadsBack`: what is recorded is in the file, under the IV recorded for it. `SerialInv` adds that one
PATCH at most works on an upload (`OneByOne`), that what it read of the resume point is then simply true and its bytes
are in the staging file until the rename (`Placed`), that a permanent file is the whole upload and leaves no staging
file (`Kept`), and that an abort or the sweep unlinks a staging file only once its rows are gone (`BornInv`). With
overlap both fail (section 6), so the hypothesis cannot be dropped; the proof needs in addition that the absence of a
file is not a content (`NoFileAssumption`).

**Sessions.** `IInv` adds `LoginInv` (every issued token descends from an issued one, and only logins that began have
ended) and `HeldInv` (a row is held by at most one refresh, and is live while it is held) to the properties. A refresh's
claim re-checks the row under its lock; that the row then stays live until the commit is what keeps both
`OneLivePerLogin` and `EndedStaysEnded`. For `LockoutFollows` the argument is that whoever raised the count to the limit
is itself in `count`, and leaves it only towards the lockout. From it: `TypeCorrect`, `OneTokenPerLogin`,
`RevokedForGood`, `LimitLocksOut`.

**Registration** (`Signup!Spec`). `OneBootstrap` alone is not inductive: a second round of an invitation or of the open
registration also makes an account, possibly while a bootstrap is under way. `SignupInv` adds that a server which has
ever invited, been opened, or is in such a round has an account (`Opened`), that tokens which are stored or presented
have been logged, and that a token stored beside an account is presented by nobody: a start writes a token nobody has
seen, and the first account deletes, or came after the replacement of, every token presented before. A bootstrap that
finds its token when it deletes it therefore makes the server's first account. From it `BootstrapOnce`.

**Logins** (`Factors!Spec`). `LoginUse` says where a use of the password is: in its row, with the one request that
claims it (`Claims`), in its pending token, or in a session, and never in two of these. A passkey consumes the token
before it is asserted, a TOTP or recovery code after it was checked, so several requests may have checked codes for one
token and one of them consumes it; each statement is shown to move the use from one place to another. From that
`OneSessionForEach`. `FactorAlwaysAsked` needs in addition that a request on its way to a session without a factor
(`plain`) is one whose account was seen without any.

**Team keys.** Two invariants. `KeyHeld`, for every choice of racing operations: the types, that a rotation which posts
has made its key (`HasNewKey`), that the owner is a member, that no removal is of him and every rotation the server has
verified names him (`NamesOwner`), and `OwnerHoldsKey`. A rotation commits with a slot for everyone it names, hence for
the owner; nothing else changes the current key or takes the owner's slot. From it `KeyNeverLost`. `FilesKept`, when
only rotations and confirmations race: besides the types, `Waits`: an operation that may not race is alone (`OneByOne`),
so additions and invitations work with the current key (`KeysRead`), and a rotation has every present file in its list,
under the key it started from once the server has verified it (`FilesCopied`). The last rotation to commit therefore
rewrites every file and slot to its key, and nothing that was read before it is written after it. From it
`FilesKeptOpen` and `SlotsKeptCurrent`. Their hypothesis `Racing \subseteq {"rotate", "confirm"}` cannot be dropped:
with files or removals racing both fail (section 6).

**File store.** `IInv` adds to `FilesKeepTheirBytes` and `UnreferencedIsQueued` what a request read of a row and may
still rely on when it acts (`TaskInv`): rows are not inserted twice, complete files stay complete, storage keys do not
change, so a copy's source may be gone but is not another file. On the worker's side, its batch stays queued, because
only the worker takes rows from the queue (`QueueInv`); between its count and the unlink only copies whose source row
has gone meanwhile, `late`, come to refer to the key (`UnlinkInv`), which is the one case `FilesKeepTheirBytes` excepts;
and the row that is about to leave the queue is not the only one of a blob that is there and that nothing refers to
(`DropInv`), which is why none is forgotten. From it: `TypeCorrect`, `BytesKept`, `OrphansQueued`.

**Shared keys.** `Kept` adds that what a client's post has inserted stays until its last statement clears the queue
(`InsertedStay`), and that nobody posts to a share not yet made (`NobodyPosts`). From it `ObligationsKept`: a file of
the share has its key or waits for it. For the visitors, `Steady` says what no other step takes away from a file that is
not spoilt while the share is live: the file, its item or its folder's, and the creator's access to every file with an
item. `Visit` says what a page relies on at each of its queries: after the re-check every item is readable or still to be
checked, and a file shown has an item or a folder that covers it, so that the download's queries find it. The steps of
others keep `Visit` because they keep `Steady` (`SteadyVisit`), those of the visitor by cases (`ReadsVisit`). From it
`ShownServed`.

**Share links.** `Total` is a fold of the community modules. What it computes is proved, without induction over data,
by taking a smallest set on which it would be wrong (`Smallest`): sums exist, agree whatever order they are taken in,
and change by one element's share (`SumsExist`, `SumsAgree`, `TotalRemove`). `IInv` adds that nobody visits before the
share exists, the range of counters (`Bounds`), that a row is not deleted under a claim that has locked it
(`LockedRow`), and that a visitor's file is there from the claim on (`FilesGiven`), and that a purge has found a file
there was (`Found`). The check and the increment under the row lock are what `LimitKept` rests on; `UploadsKept`
compares what is charged with the bytes of the files that are there, a sum, and uses the lemmas on `Total`: a purge
that finds its file gone lowers one side only, and the file is in `again` from then on.

**Batches** (`Batch!Spec`). The registration looks at the latest active batch only, so `PacingLock` needs an argument
about the order: `Paced` says that every active batch has its one place in it and none but the latest of them holds the
lock, and `Registering` that a registration which has looked is alone (the hypothesis of the property), that nothing is
locked until it inserts, and that what it inserts comes last. When the latest batch completes or is cancelled, an older
one becomes the latest, and its lock was released already. From it `LockPaces`.

**Walks in a tree.** Both folder modules define ancestors as the code finds them, by a walk of as many steps as there are
folders. What the walk finds is proved first, for every assignment of parents: the least set with the folder that has
the parent of each of its own (`TreeWalked`). A walk of `n` steps either has ended or has found more than `n` folders, so
one of `Cardinality(Folders)` steps has ended; the argument takes a least number of steps for which this fails
(`TreeLeast`), as no induction rule can be cited. That the walk exists as a function is proved in the same way. After
that the proofs use the least set only. This is why the set of folders is assumed finite, as a table is.

**Folder tree** (`Tree!Spec`, any finite set of folders and any requests). `TreeInv` says that parents are rows
(`TreeLinked`), that an id is inserted by one request (`TreeFresh`), that every walk up meets a top or a crossed folder
(`TreeTopped`), that the recorded root is the top where `RootsKept` says so (`TreeRooted`), and what each request that is
not late still relies on (`TreePending`): before its UPDATE the folder that moves is not above its destination, afterwards
the parent is what it wrote, and the root it will write is the destination's. The ghost is exact enough for that: only a
step that changes the parent or root of the folder, or of one above the destination, can make what was read untrue, and
it makes the request late (`TreeLater`, `TreeCrosses`). A new parent outside the subtree that moves leaves every other
walk as it is and joins those of the subtree to the walk from that parent (`TreeMoved`); one written late puts its folder
into `crossed`, on every walk it may have closed. From it `TreeStays`.

**Who may read** (`Rights!Spec`). The three walks up have one form: at each folder it *owns* the answer, or it goes *on*.
`RightsClimb` says what such a walk computes: that somewhere up the way is a folder that owns it, and nothing below stops
the walk. Boundaries stop it, and for the chain rows that deny, so the way is `RightsClear` exactly as far as the folder
that grants is at or below every boundary and below every such row. The walks down of `ListedByRow` and `ListedByTeam` are
compared with that (`RightsGrown`): what they add to a granting folder has that folder above it, and is clear unless a row
denies; a team's folder grants unless the role is `mute`. The invariant `RightsInv` needs nothing of the grants but their
types: rows have parents that are rows, and each folder has a top, whatever is created, moved, cut off and restored. From
it `RulesFollowed`.

**Virus scans.** `Scans` adds that whatever is queued or scanned exists or has been purged (`NoneAhead`), that two runs
at work on one file make it contested (`OneRun`), and that a run which goes on has found no verdict and none is given
before it writes its own, unless the file is contested (`NoVerdictYet`). From it `InfectedLocked`, and the action
property `VerdictsKept`: a verdict is overwritten by another only for a contested file. `VerdictsHeld` is both.

**Operational events** (`Ops!Spec`). The property speaks of the empty queue only. `OpsInv` says of every resource that
is not blurred: the event queued last of it is what its last check found (`LastIsChecked`); when none of it is queued,
the gate knows what was found (`GateIsChecked`), because the gate drops an event only if it already holds its kind; and
what the gate holds is being written or is in the row (`RowFollowsGate`). With an empty queue and nothing being written
the three together are the property. From it `ChecksRecorded`.

**Membership.** `TaskInv` says for each request under way that what it checked still counts (`Checked`): who was found
to be a spare owner or administrator is one, or is no longer asked about; whose slot a request will delete was seen to
have one, or was told `late`; and an emergency has flagged the team unless a rotation gave the slot since. From it
`LossesFlagged` and `OwnerKept`.

**Joins by link** (`Join!Spec`). A join is six statements without a transaction, and `JoinIsWhole` speaks of its end
only. `JoinInv` follows it: before it writes, every member and file has the team's key (`JoinBetween`), up to `lost`;
then the files have the new one (`JoinOpens`), then no slot is left (`JoinNoOther(0)`), then every member has it
(`JoinHolds`), and only then is it the team's and the link consumed (`JoinPhase`). A statement of somebody else
meanwhile puts what it writes into `lost`, and once a second writer or a cut has left everything in doubt, `lost` is
everyone and stays so. From it `JoinWhole`.

**Identity providers** (`Idp!Spec`). `IdpMapped` ties mapping and accounts both ways: a mapping leads to the account of
its external_id, and while the provider is there every account is mapped. Of two first logins the second therefore meets
UNIQUE, and an account made after the first statement of a removal is still the only one of its subject. `IdpTasks` ties
a request to the flow whose state it presented, and `IdpOnce` gives each flow to one request at a time: its state row
goes with the first, and what has been issued is all the flow ever yields. From it `LoginsApart`.

**Settings** (`Set!Spec`). Agreement is false between an UPDATE and its announcement. `SetReads` says so for every
worker that has read the table: on each key it agrees in what it *will* have in its cache (`SetSees`: the cache, or the
snapshot of a reload under way), or the key is stale, or a reload is due, or a request is about to announce it
(`SetPending`). It is the order of `Steps`, table, then cache, then message, that keeps it. `SetKeyKept` is the
corresponding fact on first starts: who has generated a key and not stored it is alone. From it `WorkersReadTheTable`.

**Roles** (`Role!Spec`). That `is_admin` follows the roles is false between two statements, and a request's later
statements were decided by its first. `RoleAbout` therefore says for each request about a user what it still does, and
what is true of him at that point: before the role is written `is_admin` is right; before the last statement of a grant
he has an admin role; before that of a revocation he has none. A request about no user deletes no system role
(`RolePlain`), so nothing else changes what `is_admin` ought to be. Two requests about one user put him into `blurred`.
And the holder of the tier-1 role does not take it from himself, so `AdminsStay` holds until one who had lost it
meanwhile takes the last one (`deposed`).

**Sharing rules** (`Rules!Spec`). `RulesDecided` compares what an evaluation computes statement by statement with what
the rule language says (`Verdicts`) of the conditions that were meant. `RulesConsistent`: a rule that is not torn has
the meant conditions, up to those that the one request about it has still to write. `RulesEvals`: an evaluation that no
edit overlaps has in `left` every rule that still fires, so that the first it meets is one of lowest priority; or it is
a dry run that has met a deny first.

**Authority** (`Rules!Spec /\ Set!Spec /\ Role!Spec => AuthorityKept`, an action property of the three components that
have locks, with the exceptions section 2 lists). Check and write are apart, so the invariants say of the *remaining*
statements of a request that the check still covers them: each writes only to what was allowed under the lock as it is
now, or to what another request has written since (`late`, `unchecked`). `RulesPermitted` and `RulesItem` for rules and
their places, `SetLaw` for settings, `RoleLaw` for flags. The statements of others keep it because they put what they
touch into everybody else's set. An escrow request writes several rows; its keys are distinct, so the lock it sets on
one does not bar the next. For roles the authority is the lowest tier among a user's roles, which exists as a smallest
natural number (`RoleRank`, from the library's well-founded induction). From these `AuthorityHolds`.

**Only model-checked.**

* `UploadsReadBack` has three parts of two modules. The two of TusUpload are proved for non-overlapping PATCHes
  (`BytesHeld`, `ReadsBack`, above), of the module itself; the prover does not let a theorem of one module be cited for an
  instance of it, so they are not restated for `Serial`. That of DirectUpload, `AnswersAreTrue`, is open, and so the
  conjunction is not a theorem.
* `OriginalsRead`: its invariant has to follow a blob through every label of `migrate_tier`, and is open.
* Everything under fairness: `EveryUploadSettles`, `QueueDrains`, `QueueSettles`, `PoliciesTakeHold`, and the half of
  `EventsArrive` that is about the end. Its other half, and the type invariants of the composed components, are open.

**Out of reach of the prover**: liveness under fairness and `ENABLED`; and the library's induction rules, which take an
operator as a parameter. Where an induction over data is needed (sums, walks, ranks) the proofs take a least
counterexample from a well-founded order instead. Functions of several arguments are beyond the provers too, which is why
FolderAccess writes its walks as functions of the steps that yield functions of the folder. No module declares a recursive
operator.

## 6 Where code and comments disagree

Three disagreements have a run that exhibits them.

* **`_write_at` is not idempotent across retransmissions** (`tus_idempotent`). `storage/providers/local.py:230` says
  "Seek to offset, write data, truncate beyond end. Idempotent." The client encrypts a retransmitted chunk again; if the
  earlier request is still in the server, the loser of the `file_chunks` insert has overwritten the bytes the winner
  recorded. The upload completes and does not decrypt.
* **A folder restored to the root keeps its old root pointer** (`roots`). `schema.sql:348-350`: "root folders have
  root_folder_id = id … Maintained on INSERT and on parent_id changes". `_restore_folder_by_id`
  (`routes/trash.py:453`) sets `parent_id` to NULL and nothing else. The folder still counts in its old tree's team, and
  deleting the old root fails for ever on the reference (`schema.sql:351`, no ON DELETE), after its files were purged.
* **The join page asks for what only members get** (`join_page`). `get_ephemeral_slot` (`routes/teams.py:2021-2026`) "Does
  NOT require existing team membership (the joining user is not a member yet)"; `_performEphemeralJoin`
  (`js/teams.js:2217`) first reads the file keys and the members, which answer 403 to others (`teams.py:1315`, `705`).

The following were met while modelling. The models take these steps, and no run is spent on them; where a property is
named, it is defined in the module and fails when it is added to a configuration.

**Uploads and files.**

* The expiry sweep deletes what an earlier SELECT found expired without looking at `expires_at` again; its docstring says
  "only truly abandoned uploads are removed" (`routes/uploads.py:913-937`).
* An abort deletes a file that completed after its SELECT (`uploads.py:815`, `831`). Quotas are compared with a
  `disk_used` that uploads under way have not raised (`uploads.py:214-236`). The location row commits before the
  transaction that completes the file (`storage/manager.py:163-190`).
* A shared blob can be removed under a live copy (`SharedBlobsSurvive`). `services/blob_cleanup.py:7-9`: "blobs shared
  across multiple file rows (copies) are only removed when the last reference is gone". The count and the unlink (`:44`) are
  two steps, and a copy is inserted from a source row read earlier.
* A purge does not look at `deleted_at` again: a file restored meanwhile is purged (`services/trash.py:25`,
  `routes/trash.py:475`); two purges of one file both refund its size, as the result of the DELETE is not looked at
  (`services/trash.py:75`). A file can be restored into a folder that has just been trashed (`routes/trash.py:387`).
  The last statement of `empty_trash` deletes folders whose files were skipped, and queues nothing for them
  (`routes/trash.py:326`).
* The daily repair overwrites `disk_used` with a total computed earlier (`services/maintenance.py:354`).
* `POST /uploads/batch`: a rollback leaves the blobs it wrote, with no row in the clean-up queue; two batches at once can
  exceed the quota, which is compared before the transaction; when the answer to a commit is lost the files are stored and
  reported as failed, and the browser, which also retries files reported as errors, stores them twice.
* `batch_register`: "A per-account soft lock prevents registering a new batch while the previous one is less than 50 %
  confirmed complete" (`routes/batch_upload.py:765-766`). Two registrations that race both find no active batch, and with
  `Overlap = TRUE` two batches hold the lock. "The lock is released automatically" only if half of the uploads complete:
  when they are aborted or expire nothing but a cancel releases it. The threshold a refusal reports, `max(1, total // 2)`
  (`:781`), is one file short of the released condition `total_files / 2.0` (`uploads.py:612`) for odd totals above one.
  "Cancel all incomplete files" (`:1015`) also deletes a file that completed after the list was read.

**Folders and permissions.**

* Two moves that cross, each checked before the other's UPDATE (`folders.py:664`), make a cycle that no request undoes:
  trashing, restoring, deleting or moving a folder on a cycle of live folders runs a recursive `UNION ALL` without end,
  although a comment speaks of "any existing parent_id cycles in the DB" (`folders.py:428`), against which these
  queries have no guard. They can leave wrong roots without a cycle too, as does a crash between the parent's UPDATE
  and the root's. Creating or moving below a trashed parent is not refused; a move does not check write access to its
  destination.
* Permission rows copied into a folder stay after a move out of it, after the parent's grant is removed, and inside a
  folder restricted later (docstrings at `folders.py:735`, `_access.py:476`). `has_folder_permission`, which nothing calls,
  takes a deny row for a grant; search and manifest list the files below a row that denies, and those of a team whose role
  has level 'none' or in which the user has no role left, though search is "across all folders the authenticated user may
  access" (`files.py:302`); both ignore role grants. The comment "team folders
  are always root-level" in `get_folder_team_id` is untrue. The CHECK of `permissions.permission` admits single levels,
  while folder grants send comma-separated flags.

**Shares.**

* A share created while an upload into its folder finishes never flags that file as waiting for a key
  (`schema.sql:582`); nor is a file flagged that finishes while the share is inactive, or in a subfolder. The sweep
  (`services/maintenance.py:218`) drops unkeyed files of live shares after 90 days. An item posted for a file whose
  upload is not complete, or which is purged before the insert (`shares.py:1461`), makes
  `_verify_creator_still_has_access` answer 404 for the whole share (`:644-649`), in the second case for good; so does,
  once, a purge between the list of items and the check of that one. "Any file in the share" (`:629`) are those with an
  item of their own: files that a shared folder covers are not checked again. Legacy file items ignore exclusions
  (`schema.sql:571-578`). Purging the last item deletes a share that accepts uploads. A file that is only pending
  cannot be removed.
* The quota of an upload to a share is compared before it is written; a crash leaves its blob, and so does a failed
  removal after a refusal, which is logged at most and not repeated (`shares.py:2082-2087`, `manager.py:661-666`); such
  uploads are never queued for the scanner. A ranged request that does not start at byte 0 is not counted as a
  download. Short links skip the checks of creator and recipient.

**Teams.**

* A rotation need not include all file keys (`FilesAlwaysOpen`). `routes/teams.py:1477` "Rotation must include all … file
  keys": the comparison precedes the transaction, and `add_file_keys` takes what a client encrypted to a key it read
  earlier.
* A pending rotation may never be carried out (`RotationCompletes`). `src/frontend/js/teams.js:1940`: "any member silently
  executes the rotation". The client wraps the key for active members, the server demands every `user_roles` row
  (`teams.py:1494`).
* Removing a member is three statements that commit one by one (`routes/teams.py:931-963`). A rotation checked before a
  removal gives the removed member a slot with the new key and clears `rotation_pending` (`teams.py:1585`). A
  confirmation is verified against one key and recorded for whatever slot is there (`teams.py:1709`).
* `ephemeral_join` "atomically" (docstring) is a sequence of autocommits: a crash after `DELETE FROM user_team_keys` loses
  every copy of the key; two joins with one link both pass, since consuming it has no `WHERE consumed = 0`. The list of
  members is not compared with the team, and an empty list of file keys passes although there are files.
* Deleting an account reads its teams before the transaction that drops the slots, and a lock drops slots in one statement
  and flags the rotation in a later one: slots can go without a flag. Unlocking leaves `scheduled_delete_at`, so an
  unlocked and re-invited user is purged later; the hourly purge does not look again at a user recovered meanwhile
  ("Cancel a pending soft-delete and restore the user's access", `users.py:991`).
* Foreign keys without ON DELETE (`teams.owner_id`, `team_folders.added_by`, `files.transfer_locked_by`, `created_by`, …)
  make the purge of such a user fail every hour ("the user row is CASCADE-deleted").
* Two owners who demote each other at once leave none; "Cannot remove the team owner" compares `owner_id` only;
  `update_member_role` fails on a member with two roles; `remove_member_role` counts the custom role, so the last standard
  role can go; `remove_member` leaves `team_role_assignments`.

**Accounts.**

* A refresh in flight survives a revocation of all sessions: its new row is not in the snapshot of the UPDATE. So a password
  change, the theft alarm ("revoke every session for this user", `routes/auth.py:144`) and a lock can leave one session.
* `DELETE /me/sessions` says "all sessions except the current one" (`routes/auth.py:883`), but the access tokens issued by
  registration and bootstrap carry no session id (`opaque_auth.py:499-501`, `749-751`, `1947`).
* Workers that start together on an empty server each log a token and only the last one counts; one that is slow leaves a
  token in `admin_settings` that no registration can use any more (`main.py:378-400`).
* A logout, a login's pruning or the clean-up between a refresh's SELECT and its claim makes the refresh raise the theft
  alarm. `refresh` speaks of `BEGIN IMMEDIATE`, which PostgreSQL does not have; the claim's `WHERE revoked = 0 …
  RETURNING` does the work.
* A login begun before a password change finishes after it (`OldPasswordOut`): "revokes all existing refresh tokens so the
  user must log in fresh with the new password" (`opaque_auth.py:1409-1411`).
* Removing the credential the master key is wrapped for leaves the wrapping (`PrfIsActive`): the handler selects `id` and
  `method`, and the KeyError of `row["credential"]` is swallowed (`mfa.py:535`).
* An invite makes two accounts when two second rounds overlap (`InviteOnce`): "Atomically consume invite + create user"
  (`opaque_auth.py:426`) is a plain SELECT and an UPDATE by id.
* Recovery codes and the TOTP replay check read and write in two statements; the count that guards the last factor is not
  in the statement that removes it; two recoveries with one old key both succeed.
* Identity providers: of two first logins of one subject one fails with 500; accounts made between the two statements of a
  provider's removal make the second fail with everyone delinked; delinked users still log in by their mapping; two
  spellings of an LDAP name get two accounts; the challenge store is per process and its `sweep` is never called.

**Policies.**

* `user_team_keys` never gets its `policy_effect_id`, so a revoked member keeps the slot, and what the docstring of
  `delete_effect` says (`routes/policies.py:785`) does not happen; the join at `folders.py:1194` never matches.
* The row of one policy hides that of another: write-then-revoke removes a member until the next evaluation.
* A team's policy is not loaded for users who left the team, whose folder permission is never revoked.
* Deleting a `team_escrow` effect removes no agents; the agents of one evaluation are revoked by another's. A change of a
  scope condition propagates nothing (`admin_scopes.py:218`). A key delivered for a grant revoked meanwhile makes a
  slot. What a rotation says of omitted members is lost in a crash.

**Administration.**

* A sharing rule is active before its conditions are written, and matches everybody in between, or for ever after a crash;
  a rule deleted between the two SELECTs of an evaluation fires on everybody. Profiles replace rules "atomically"
  (`admin_profiles.py:398`, `563`, `669`) statement by statement. `update_sharing_rule` writes back the lock it read. The
  priority floor counts the rule itself and looks at its creator's tier, not the locker's.
* `update_setting_locks` does not look at an existing lock; the escrow settings share "one logical lock"
  (`admin_escrow.py:123`) of which only the changed keys are written, and an arbitrary row is checked; deleting a role
  cascades away locked flags and `update_sharing_flags` changes the value of a locked one, although "only admins with
  role_tier <= locked_min_tier may modify that flag's value or lock state" (`admin_roles.py:13-14`). A lock set between
  the check of a request and its statement is overwritten.
* Profiles, imports, escrow and storage settings never reach `live_settings`, "updated in-place after admin writes".
  Messages between `load` and `subscribe` are missed; a lost answer to a commit, or crossing updates without Redis, leave a
  cache old. Two first starts make two audit keys; when storing the key fails the log says "detail_enc will be skipped",
  and details are encrypted under a key nobody keeps.
* `is_admin` is kept by separate statements; two server administrators who revoke each other at once leave none.

**Background services.**

* Two overlapping passes lose a blob (`NeverLost`; `storage/manager.py:438`; "Move a blob from its current primary volume
  …", `:355`). A crash after a row was marked again leaves a primary row 'migrating', which no read accepts, and which
  `run_reconciliation_task` does not retry. Copies, which have no location row, become unreadable when the default volume
  changes or the blob moves.
* A pass that finds the primary volume of a file not loaded takes the default volume for the source
  (`storage/manager.py:495-496`, whose comment has only files without a row in mind). When that is the target of the move,
  as after a stop between copy and promotion and a change of the default, the blob is "copied" onto itself, promoted,
  erased, and the row of the volume that holds the other copy is dropped: the bytes are there and no read finds them. The
  files this happens to are `astray`, and `OriginalsRead` says nothing of them.
* AV: an UPDATE of the status that fails is logged and the scan goes on (`av_scanner.py:498`): its row is closed, an
  infected file is locked but not marked, and a file that stays 'pending' is passed over by the bulk rescan. A run that
  finds the endpoint invalid overwrites a verdict with 'error', as that check precedes "already definitive"; a scan of
  more than ten minutes is claimed again and the later verdict wins; a copy made while its source is scanned stays
  'pending'; copies inherit the verdict and not the lock; a crash between verdict and lock leaves an infected file
  open.
* Event bus: a subscriber whose queue was full is unsubscribed and waits for ever; a batch being written at the stop is
  lost, and what comes after it; the webhook dispatcher flushes by count only while events arrive, is cancelled without
  draining, and sends concurrently, so batches arrive in any order.
* Operational events: an update of a channel never reaches its running task; a failed insert leaves the gate set and the
  warning unrecorded; a restart forgets the gate; a channel with neither size nor interval never sends; one channel that
  does not load stops the rest.

## 7 What is not modelled

Of the modelled components: the abstractions of section 2. Everywhere: cryptographic strength, key formats and parsing,
which the models take as symbols; rendering, listings and pure reads; request middleware, since authentication and
CSRF guards refuse before a handler begins; wording of errors and audit entries.

Whole parts, with the reason:

| part | why |
|---|---|
| Rate and bandwidth limits (`middleware/rate_limit.py`, `bandwidth.py`) | sliding windows over wall-clock time and Redis: their state is timestamps, and what can go wrong is a matter of real time; next in the plan |
| API keys, service accounts | one statement per operation; their sessions and locks behave as in Sessions and Membership |
| Escrow | its settings are in Settings; agents and copies of keys are records nothing else waits for |
| Audit log | the events are EventBus's; decryption and export only read |
| Notifications and SIEM | dispatcher and channels are in EventBus and OpEvents; the formats of providers are not |
| Database, migrations and start-up | run alone, before the first request; what of the start races others is in Settings and Registration |
| Object stores, ClamAV, LDAP, OIDC, Redis, SMTP | external: modelled as answers they may give |
| Browser pages, vendored libraries, build scripts | no shared state of their own; the pages that drive a protocol (uploads, rotation, join) are in the modules of that protocol |
| Transfer manager of the browser | next in the plan; the server sees it as the clients of TusUpload and BatchUpload |

## 8 Plan

1. **Proofs**: DirectUpload's `AnswersAreTrue`, EventBus's `InOrder`.
2. **RateLimits**: windows and their fallback when Redis goes away.
3. **Transfers**: the browser's transfer manager above TusUpload (pausing, resuming from HEAD, parallel files).
4. **Contracts** for sessions (a login is live or over) and for teams (one current key, held by its owner), as
   UploadContract is for uploads.
5. Liveness of the minute's clean-up: idle and revoked session rows are deleted in the end.

## 9 How to run

```
tlasany TusUpload.tla
tlc -workers 2 -config tus_overlap.cfg MCTusUpload.tla
tlapm TusUploadProofs.tla
```

`PROJECT.json` names the module and configuration of every run, the mutants, and for each definition the source lines
it models.
