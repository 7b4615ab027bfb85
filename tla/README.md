# A TLA+ model of the UniNav backend

UniNav is a NestJS server over PostgreSQL (through Drizzle), Redis, two object
stores (iDrive/S3 and Cloudinary) and a chain of mail providers. Nearly every
handler of a service is a sequence of `await`s on these, outside a transaction.
One Node process interleaves the handlers of all requests at these `await`s, and
several processes may run at once. The models therefore share one convention:
*an action is what happens between two awaits*, a handler in flight is a record
`req[r]` with a program counter, and a throw or the death of the process between
two steps is an action (`Abort`) that drops the record and undoes nothing.

Paths below are relative to the repository root; `S` is `src/modules`, `L` is
`libs/common/src`, `U` is `src/utils`.

## 1. Inventory

| Part | State it keeps | Operations | What is hard about it |
| --- | --- | --- | --- |
| Material search (`S/material`, `U/cache/redis-cache.service.ts`) | rows of `material`; in Redis a version per user and `search:materials:*` entries | `searchMaterial`; `create`, `batchCreate`, `update`, `remove`, `review` invalidate | a cache filled after an await; versions bumped by several requests; a SCAN/DEL loop against concurrent fills; Redis away |
| Recommendations (`S/material`) | `search_history`, likes; in Redis an entry per user and page | `getRecommendations`; a search and a like invalidate | filled after two queries, for an hour, without a version |
| Accounts (`S/auth`, `S/user`) | `users`, `auth`, `admin`, `moderator` | sign-up, Google sign-in, verify, resend, login | two paths that create the same rows by separate inserts; look-up then insert; a sign-up that stops halfway |
| Password reset (`S/auth`) | `auth.password`, token and expiry | `forgotPassword`, `resetPassword` | the token is read, used and cleared in three steps while others replace it |
| Moderators (`S/user/submodules/moderator`, `S/review`) | `users.role`, `moderator` | application, review | role and application are written one after the other |
| Likes (`S/material`, `S/blog`) | like rows and a counter in the entity | `likeMaterial`, `likeBlog` | row and counter in two statements; double clicks |
| Folder nesting (`S/folder`) | `folder`, `folder_content` | `addNestedFolder`, `removeNestedFolder`, `remove` | a recursive check over a tree that changes; no visited set |
| Folder contents, bookmarks (`S/folder`, `S/user`) | `folder_content`, `bookmarks` | create, update, add, remove, list, search | look-up then insert without a unique constraint; rows read before the insert |
| Material files (`S/material`, `U/storage`) | rows of `material` and `resource` against files | `create`, `update`, `remove`, downloads | row and file change in separate steps that each may fail |
| Pictures of clubs, adverts, blogs, profiles | a key and a signed link in the owner's row against files | create, update, serve, remove | two buckets and two providers; deletion before the write; links that expire |
| Previews (`S/material`, `scripts/batch-preview.ts`) | `preview_url`, files | upload; a script over all materials | a script that acts on pages computed minutes before |
| Recent views (`S/material`) | `recents` | track one, track a batch | a bounded list trimmed by calls nobody waits for |
| Points (`S/user/submodules/stats`) | `user_points`, counters in `users` | reading, upload, download | once-a-day check then insert; counter and row apart |
| Enrolment and course catalogue (`S/courses`, `S/user`) | `courses`, `department_level_courses`, `user_courses` | create, link, update, remove; change of department or level | the check and the primary key differ; delete all, fetch, insert all, then update the row |
| Clubs (`S/clubs`) | clubs, targets, joins, flags | create, update, join, flag, resolve | a counter next to an idempotent insert; status changes made twice |
| Review and notifications (`S/review`, `S/notifications`, `S/management`) | `review_status`, `notifications` | review by concurrent reviewers, mails, counts | last write wins while both reviewers notify; three counts of one table |
| Lists (every repository) | - | pages by number, count and rows in two queries | offsets into a list that changes |
| Rate limit and blacklist (`L/middleware`, `L/services`) | Redis counters, bans, ban counts | every request | INCR and EXPIRE apart; a read-modify-write ban count; two ban levels over one key |
| Mail (`L/modules/events`, `U/email`) | nothing persistent | an event per mail, four providers in turn | events die with the process; failures are swallowed; a provider may take a mail and throw |
| Roles guard (`L/guards`) | nothing | a decision per request | strict and lenient modes, root key |
| Error reports, departments, faculties | single rows | create, read, update | little: single-statement handlers |
| Schema, logging, configuration, encryption, user names, scripts | - | - | declarations, pure functions, output |

Parts interact in four ways: a service awaits another service (`AuthService`
calls `UserService`, review controllers call the services and then
`NotificationsService`); they share tables and Redis keys; a mail leaves as an
in-process event; and the database's constraints (unique keys, cascades) answer
for checks the handlers make too early.

What makes each part correct is in section 3 for the modelled ones, and in the
hazards of `PROJECT.json`, with the line where each bites, for all of them.

## 2. Modules

| Module | Models | Run | Proved in |
| --- | --- | --- | --- |
| `SearchCache` | search, its cache and the writers that invalidate it | `searches`, `fair`, `search_*` | `SearchCacheProofs` |
| `Recommendations` | the recommendations in Redis | `searches` | `SearchesProofs` |
| `Previews` | stored previews and the batch script | `searches` | `SearchesProofs` |
| `Listings` | paged lists and a client that walks one | `searches` | `SearchesProofs` |
| `Accounts` | sign-up, Google, verification, login | `members`, `fair` | `AccountsProofs` |
| `PasswordReset` | reset links of one account | `members`, `reset_hour` | `PasswordResetProofs` |
| `LinkLedger` | what resets promise: the abstract specification of `PasswordReset` | `members` | `PasswordResetProofs` |
| `Moderators` | roles and applications | `members` | `MembersProofs` |
| `Library` | folder contents and bookmarks | `members` | `MembersProofs` |
| `RecentViews` | one user's recent views | `members` | `MembersProofs` |
| `Points` | one user's points and counters | `members`, `points_reading` | `MembersProofs` |
| `RateLimit` | counters and bans of one address | `members` | `MembersProofs` |
| `MaterialFiles` | rows and files of one material | `submissions` | `MaterialsProofs` |
| `FolderNesting` | folders in folders | `submissions`, `nesting_self` | `MaterialsProofs` |
| `Catalogue` | courses, their links, enrolments | `catalogue` | `CatalogueProofs` |
| `Review` | verdicts, notices and counts | `catalogue` | `CatalogueProofs` |
| `Mail` | a mail from its event to a provider | `catalogue` | `CatalogueProofs` |
| `Clubs` | one club: status, targets, joins, flags | `submissions` | `SubmissionsProofs` |
| `Media` | one picture with its row and its link | `submissions`, `media_removal`, `media_renewal` | `SubmissionsProofs` |
| `Likes` | like rows and counter of one entity | `submissions` | `SubmissionsProofs` |

Definitions marked *Mutant* in the modules are not part of the behaviour. Each is
a variant of the definition after it, with a plausible slip in the code, and is
there to show that a property would notice the slip.

Many properties speak of a *history variable*: a variable that no action reads and
that records whether something happened under which the code gives no guarantee.

### SearchCache

`row[m]` is the revision of a material's row (0: no row). A search result is the
snapshot of revisions the query saw; filters, ranking and pages are one fixed
query, because the cache key separates queries. `version[u]` is
`search:version:user:<u>` with 0 for an absent key, `cache` maps (searcher,
version) to an entry. `SearchBegin`, `SearchHit`/`SearchMiss`, `SearchQuery`,
`SearchStore` are the awaits of `searchMaterial`; `Insert`/`EndInserts`,
`Authorize`/`UpdateRow`, `RemoveRow` and then `Bump` or
`BeginWipe`/`WipeBatch`/`EndWipe` those of the writers. `Expire` is the 60 s time
to live and `Reconnect` the client events. `acked`, `floor`, `wiped`, `hidden` and
the entries' `late` are history variables that only properties read.

### Accounts

Rows are indexed by the email, which is unique in both tables, and are never
deleted through the API. `CheckEmail` and `InsertUser` are
`UserService.create`, `InsertAuth`, `InsertStaff` and `SignupEnd` the rest of
`signupStudent`; the `Google*` actions are `validateUserWithGoogle`, which
shares `CheckEmail`. `Abort` stands for anything that throws after an insert (the
course insert, the department lookup for the welcome mail, ...). A verification
link is the membership of its email in `mailed`. The user name is taken to be
fresh: its generator retries and then throws, which is an `Abort`.

### PasswordReset

One account. `Forgot`, `SaveToken`, `MailToken` and `Reset`, `UpdatePassword`,
`ClearToken` are the awaits of the two handlers. The JWT's hour and the row's hour
are set together and are one `Expires`. A token is a JWT of the address and of the
second, encrypted under a fixed initialization vector, so that requests in one second
get one and the same token: `Forgot` takes a token never generated, or the `latest`
again. A link that was replaced or used therefore works again when a second request of
its second saves it again; `dead` then loses it, and `shared` remembers that it was
signed twice.

### Likes

One material or blog; both services have the same toggle. `Toggle` is the two
look-ups, then row and counter. `Sender` says which user sends a request, so that
a double click is two requests with one sender.

### FolderNesting

`Nest` makes the two existence checks, `Visit` is one recursive call of
`getAllNestedFolders`, `Store` the comparison and the insert. `Kept` is the
cascade of `folder_content`. The order of the recursive calls is left open.
Ownership decides who may ask and is not modelled: the owner of a parent is free
to nest any folder in it.

### MaterialFiles

One material. `resource` is its row in the `resource` table (`Nothing` without
one), `store` the object store, and a signed URL of file `k` is `k` itself, so that
an address that belongs to another file is visible. `CreateMaterial`, `CreateFile`,
`CreateResource` are the awaits of `create`; `BeginUpdate`, `ReadResource`,
`UploadNew`, `DeleteOld`, `SaveFile` or `SaveLink` those of `update`;
`BeginRemove`, `RemoveFile`, `RemoveRow` of `remove`; `BeginView` and
`SaveSignedUrl` are `getMaterial`, which does not await its write. Downloads only
read. `DeleteFile` may fail without anybody noticing. An update that changes
metadata alone leaves type, key and address and is not modelled. `linked`,
`crippled` and `outdated` are history variables.

### LinkLedger

The promise of the two reset handlers without requests and mails: one link is
live, only the live one opens a reset, and a replaced or used one is retired, for good
unless it was asked for twice (`Coincide`), upon which it may be issued again.
`PasswordReset` implements it under `live <- stored`, `retired <- dead`
(`ImplementsLedger`, and for every value of the constants `LedgerImplemented`).

### Recommendations

An entry is what it has seen: how many of the user's searches and likes were
stored when its two queries read them (`ReadSearches`, `RankMaterials`). `SetRecs`
comes after both. A search with words and a like (`TasteBegin`, `StoreTaste`) end by
deleting the user's entries page by page (`DeleteRecs`), which may fail. What one
query ranks is not looked into.

### Previews

`SetPreview`, `AddMaterial` and `RemoveMaterial` are what users do meanwhile; the
rest is the script: a page by the cached search (`GetPage`, which may be answered from
Redis), `SkipMaterial` by what that page says, `MakePreview`, `UploadPreview`. An
image either comes out or does not; the pause after many is `MakeAgain`.

### Listings

`ListKind` says what sets the lists apart: how a walker learns that there is more
(a count before the page, after it, or a row fetched in excess), what the rows are
ordered by, whether few matches widen the search, whether its pages are kept in Redis,
whether a widened first page is ordered otherwise than the next, and whether rows and
order are drawn at random. Each list of the repositories is one value of it. A client
walks a list from page 1 while rows join, leave, or move.

Searches (60 s) and recommendations (an hour) keep each page in Redis by itself:
`ServeStored` answers from there, `FetchPage` stores, and `WalkAgain` begins another walk
over what is left there. With more than twenty searches the recommendations draw up to five of
the older ones with `ORDER BY RANDOM()`, at each query: which rows are found and how they
rank is then open at every count and page (`drawn`), and nothing is claimed of such a walk.
Browsers' and proxies' caches (Cache-Control) are not modelled.

### Moderators

A sign-up as a moderator and a later review: `UpdateRole` and
`DeleteApplication` are two awaits of a rejection, and an approval leaves the
application in place.

### Library

`content` counts the rows of a pair, because the table admits duplicates; a bookmark
is a row with its id. `OwnerReads` is the look-up with which every change of a folder
begins. `FindContentByMaterial`/`AddMaterial` and `FindBookmarkByMaterial`/
`FindBookmarkByFolder`/`SaveBookmark` are look-up and insert. Deleting a material or
a folder takes its rows along. `Opened` is the folder's contents, one entry for each row
of `folder_content`: neither the query nor the card's count removes duplicates.

### RecentViews

The list is a sequence, latest first. `CountEntries`, `EntriesToKeep`,
`DeleteOthers` trim it, `UpsertView` or `DeleteBatch`/`InsertBatch` write. Rows are
chosen by id, and a row that was deleted and inserted again has another id. `Without` is
the list without some rows, the others in their order. Under overlapping views the
list holds at most `Limit - 1` rows and the room that the views under way may still name
(`RoomNamed`).

### Points

A row of today is for reading or for something else, and the look-up does not see
which. `Midnight` begins a new day. Upload and download count first
(`IncrementCount`) and pay then (`AllocatePointsImmediate`).

### RateLimit

One address. Each Redis command is an action: `Ask`, `Incr`, `SetWindow` (EXPIRE),
`BlacklistForBurst`, `ClearCounter`, `ReadBans`, `WriteBan`, `CountBan`. Each may fail
(`CommandFails`), upon which the middleware goes on as if the key were absent.
`removeFromBlacklist` has no caller and requests with the root key pass before any
command.

### Catalogue

`CreateCourse` to `InsertLinkAndCommit` are one transaction at READ COMMITTED, whose
insert waits for an uncommitted course of the same code. The primary key of the
links has no level, unlike the look-up. `UpdateUser`, `DeleteAllUserCourses`,
`FindCoursesByDepartmentAndLevel`, `CreateUserCourses`, `UpdateUserRow` are the awaits of
`UserService.update`. Ids are random: an id is never given again (`retired`), and no two
inserts under way share one. `twins` is set when two courses of one name are looked up
before either is there, and when an administrator renames a course to a name that is taken or on its way,
which nothing checks.

### Review

Five kinds of items. `ReadItem`, `WriteVerdict`, `TellCreator`, `CreateNotification`
are the awaits of a review, whose verdict may be any status, `pending` among them: that
one is written, mailed to nobody, and announced as a rejection (`NoticeOf`). A blog has none, because its look-up throws:
`getBlogContent`, which reads its body, is not implemented. Seeded courses
have no creator and nobody is told. `BeginCount` to `AnswerCount` are the counts of the
dashboard. `ModeratorService.review` has no caller: the controller reviews by itself.

### Mail

`SendEmail` starts the listener and returns. `ProviderTakes`,
`ProviderTakesAndThrows`, `ProviderRefuses` are the outcomes of a provider;
`MailRestart` loses what is on its way. The listener logs success also when
`sendMail` returns false; nobody reads what it logs.

### Clubs

The look-up and the write of an update, of a join, of a status and of a resolved
flag are separate; the target departments are replaced after the row is written, and only
when the request lists departments. The validation pipe drops no field
(`main.ts:25`), so that an update may also write the status and the join counter:
`SentStatuses` and `SentCounts` bound what a body names there. Other columns of the row
are free text and links that no property reads.
`extra`, `together` and `kept` are history variables; `together` is set when a change
to live begins while another approval of the pending club is between its read and its mail,
and when the club is set back to pending under an approval.

### Media

One picture, of a club, an advert, a blog or a profile; `owner` decides where the code
uploads to, where it deletes from and in which order. `period` is time in units of a
link's life; a link is signed again by `RefreshLink` when the row looks old, that is,
when nothing has written the row since. `TouchRow` stands for any other
write of the row. The list of the flags against clubs serves their links as they are
(purpose `flags`). `userService.remove` has no caller, so a profile is not removed.

## 3. Runs

Parts that share no table, key or counter are checked in one run: the variable `part`
of the MC module says which of them acts in a behaviour, and the others stay at their
initial state. Nothing is lost by that: a step of one part neither enables nor
disables nor changes a step of another, and no property relates variables of two
parts, so that every state of a part is reached with the others at rest. Every bound is a
constant in the cfg.

| Run | Question | Bounds |
| --- | --- | --- |
| `searches` | Does a search show the user's finished writes while Redis stays up, does the SCAN/DEL wipe reach all entries of before? Do recommendations follow their user? Does the script leave protected previews alone? Does a walk through a list show each row once? | 1 user and an anonymous searcher, 2 materials with 1 revision, 1 search, 1 writer, 3 versions, SCAN batches of any size; 2 requests, 2 pages, 1 fault; 3 materials of which 1 is unsupported, pages of 2, 1 change; 5 rows in pages of 2, 2 walks, 1 change |
| `members` | Do the rows of an account fit together, is every session proven, are dead links dead and is the ledger implemented? Do moderators have applications, folders list what they hold once, bookmarks come once, recent views stay short and current, points get paid once? Do counters expire and bans hold? | 2 emails, 1 matriculation number, 2 requests, 1 fault; 2 tokens, each asked for any number of times, 2 requests; 1 user, 1 folder, 1 material, 2 bookmarks; 4 materials, a list of 2, a single and a batch of 2; 2 requests, 1 midnight, 1 fault; 2 requests, windows of 1 and 2, ban at 2 violations, 1 fault |
| `catalogue` | Are names of courses distinct, does the enrolment fit the row, does the creator know the verdict, do counts add up, is each mail accounted for? | 2 courses, codes, names, levels, 1 department, 1 student, 2 requests, 1 fault; 2 items (a material and a seeded course), 2 requests of which 1 counts at once, 1 fault; 2 mails, 4 providers |
| `submissions` | Do rows and files of materials fit together, and addresses the rows? No cycle of folders without overlapping stores? Has a public club the targets that were kept and no others, does the join counter count what it says, is one mail sent? Is the picture of a row stored, does its link lead to it? Does the counter fit the likes? | 2 requests, 3 uploads, 1 fault; 3 folders, 2 walks; 1 user who joins, 1 department, 2 requests, 1 fault, bodies that name the status pending or the count 0; 3 pictures, 2 requests, 3 periods, 1 fault; 3 toggles of which one user sends two, 1 fault |
| `fair` | Is what a successful sign-up promised there? Does a deleted material fade out although Redis drops at will? Does Google let in an address whose sign-up stopped halfway? | liveness; 1 user, 1 material, 2 searches; 1 email, 2 passwords, 2 requests, 2 faults |
| `search_first_bump` | violation: the first bump of an absent key | version key absent at the start |
| `search_delete` | violation: a late fill resurrects a deleted material | 2 searches |
| `reset_hour` | violation: a mailed link lives an hour | 2 tokens, 2 requests |
| `nesting_self` | violation: a folder in itself | 2 folders |
| `points_reading` | violation: reading is paid once a day | 2 requests, 2 uploads, no midnight |
| `media_removal` | violation: a removed club leaves no image | 2 pictures, no fault |
| `media_renewal` | violation: an expired link is renewed when its club is served | 2 periods, no fault |

Two concurrent requests suffice for the races of check and write, since each
race is between one reader and one writer of a row; the third of `Likes` lets a double click
overlap another user. Any number of requests, the pairs that overlap a third in
`MaterialFiles` among them, is covered by the proofs. Three folders are the least
with a cycle whose closing pair neither begins nor ends at the walked folder's
own content. Five rows make three pages, the least in which a page has one before and
one after it; two walks let the second meet pages of the first. Four materials are more
than a list of two and one view or batch can hold; that overlapping views outgrow it by no more
than they name, which takes five, is left to the proof. Two tokens are a link and the one that replaces it;
each may be signed again while it is the latest. One user who joins may join twice.
Two bans and two levels need two violations and one ban to count. In
`SearchCache`, one writer makes the space small enough for two
materials and the anonymous searcher; two writers whose bumps cross are covered by
the proof of `ReadYourWrites`, which is for any number of them.

*Symmetry* is used where the parts treat the permuted values alike (requests,
emails, pictures, courses, names, codes, levels, files, searched materials); names that several
parts use for their own constants are permuted in all of them at once. Rows of lists and
previews are numbers in order and are not permuted. `fair`, with its liveness properties, uses none.

*Deadlock* is checked in `fair` and in the two search violations. In the others a
bound or a deletion may end a part: tokens, rows, pictures or faults used up, the
entity or all folders deleted, the walk through a list over.

*Fairness.* Only the server's own steps are fair: a request the server has taken
runs on, since the event loop returns to it when its await is answered, and Redis
evicts what has expired. No user action is fair. `Abort` is not fair either; where a
liveness property could be defeated by endless faults they are bounded
(`MaxFaults`). The parts outside `fair` promise nothing that would need fairness: a mail, an
invalidation or an EXPIRE that does not happen is never made up for.

*What the violations show.* In `search_first_bump`, a user's first upload leaves
her on the stale entry since INCR of an absent key gives the default version.
In `search_delete`, a search that read the row before a delete stores it after the
wipe. In `reset_hour`, a reset under way clears a newer link. In `nesting_self` the
check misses a folder in itself. In `points_reading`, an upload or download before
the day's first reading is taken for a payment of reading, because any row
of today is. In `media_removal`, the image of a removed club stays: it was uploaded to the
private bucket and is deleted from the public one. In `media_renewal`, the link of a club is
served after its seven days, against CLUBS_API_DOCS.md:246, because another write of the row
has moved the time by which the code judges its age.

Two more disagreements with what is written beside the code are stated by properties of
`submissions` rather than by runs of their own. CLUBS_API_DOCS.md:266 says that a change of
targeting to public clears all target departments; `clubs.service.ts:235` does so only when
the request lists departments, and what stays otherwise is exactly what `PublicHasNoTargets`
allows (`kept`). The comment at `clubs.service.ts:339` calls joining idempotent; the row is,
the counter is not, and `JoinsAreCounted` says by how much it exceeds the rows (`extra`).

*What conditions in the properties mean.* Where the code gives no guarantee under
some interleaving, the property says so by a history variable, and the run explores
that interleaving too:

* `NoCycleWithoutOverlap`: two nestings at once can close a cycle that neither
  walk sees.
* `CounterMatchesRows` (with `doubled`): two toggles of one user may lower the
  counter twice. `NeverOvercounted` needs no condition.
* `NoFileLeaks`, `AddressFits` (with `outdated`): nothing compares the resource at
  the write with the one at the read. Two updates at once leave one file behind;
  a view that was signing an upload puts its URL over a newer link. `FileBehindRow`
  holds under all of these: a late deletion can only hit a file that no row names
  any more, or the one its own request is about to replace.
* `ListedOnce` (`contentTwice`), `OneBookmark` (`bookmarkTwice`),
  `PaidOnce` (`racing`), `NamesAreDistinct` (`twins`): two look-ups before either insert.
* `EnrolmentFitsRow` (`unsettled`): updates overlapped, one was cut short, or links
  or courses were changed by hand since.
* `ModeratorsHaveApplied` (`appealed`), `OneApprovalMail` (`together`): two decisions
  overlapped, or one was cut short.
* `CreatorKnowsVerdict` (`contested`, `untold`): reviews of the item overlapped, or one was
  cut short past its verdict; a review that runs alone afterwards makes up for it.
* `PublicHasNoTargets` (`kept`): an update made the club public and listed no departments, was
  cut short, or departments were written for another targeting than the row's.
* `JoinsAreCounted` (`extra`): the exact surplus of the counter over the rows.
* `DeadLinksStayDead` (`shared`): a second request of the same second saves the link again.
* `CountsAddUp` (`moved`): an item changed between the three queries.
* `RecentsHold` (`crossed`): with two views at once the list may lose what was just
  viewed; how far it can outgrow its limit is bounded without a condition.
* `RowPictureIsStored` (`halfReplaced`): a request that stopped after deleting the old file
  and before writing another key.
* `LinkLeadsToPicture` (`halfReplaced`, `outrun`): also a link that a renewal under way put
  back after its file was replaced. Whether the link in the row has expired is no part of it: that
  one is `media_renewal`.
* `EachRowOnce` (`disturbance`): a row that joins, leaves or moves during the walk, a
  page counted before it and read after it, ties, a client that drops the flag of
  the widened search, a widened first page in another order, a list drawn at random, and a
  page from Redis that is older than the list's last change. A kept page that is
  younger than that disturbs nothing.
* `RecsFollowTheUser` (`late`, `spared`), `ProtectedStays` (`since`): an entry, or a page,
  computed before a write and used after it.
* `CountersExpire` (`spoiled`), `BansHold` (`missed`): a command that failed or a
  server that stopped; a request that got past the blacklist before the ban was
  written. A counter whose EXPIRE failed limits the address for good, and a ban count
  whose GET fails starts again at 1.
* `MailIsAccountedFor` (`doubts`): a provider that took the mail and threw.

## 4. Proofs

All theorems hold for every value of the constants that satisfies the modules' named
assumptions. Each invariant and each action property of a passing run is stated by a
theorem, and so is the refinement of `LinkLedger`. Only model-checked are the two
liveness properties (`DeletedFadesOut`, `GoogleGetsIn`): neither fairness nor
ENABLED is in the prover's reach.

Every component is proved along one plan. Its type invariant, in the longer proofs with
what a request holds at each of its awaits (`LibFits`, `RevFits`, `CatFits`, ...), is
inductive by itself. A strengthening `IInv` of the safety invariants is preserved by each
action, one step for each, with lemmas for the steps that disturb nothing and for the
history variables, which only grow. PTL turns Init, step and consequence into the
temporal statement. The strengthenings say the same thing in many forms: *what a
request read at its last await still holds, and nobody else is at the same place, unless
the history variable says so*. Neither half is inductive without the other.

A proof module holds the components that one run checks together; the files and folders of
`submissions` have theirs in `MaterialsProofs`. Its last theorem
(`MembersTypeCorrect`, `CatalogueTypeCorrect`, `SearchesTypeCorrect`,
`SubmissionsTypeCorrect`) is about the specification of the MC
module: the part that acts keeps its invariant, the others are left as they were.

### SearchCacheProofs

`ReadYourWrites` needs that every entry and every search in flight at the version in use
covers the writes acknowledged at that version (`CacheCovered`, `SearchCovered`), that
acknowledged writes are in the rows (`AckedStored`, `WroteStored`) and that rows only
grow or go (`RowsGrow`). A bump moves to a key under which nothing is stored yet. The
theorem assumes what the violation shows to be needed: `~Flaky` and an existing version
key. `WipeReachesAll` needs that the SCAN under way still owes every stale entry.

### AccountsProofs, PasswordResetProofs

* Two sign-ups between their inserts never share an address (`BuildersOwn`), because the
  unique email lets one insert pass; a request past its auth row finds its own
  password there (`BuiltOwn`).
* A token that was signed once and is not yet saved is known to its own request alone, and
  one that was signed more often is `shared` (`Unsaved`, `Around`): so a save brings back
  a dead token only if it is shared (`OnlySharedRevive`), and what a row holds is never dead
  (`StoredAlive`). `LedgerImplemented` maps each action to a step of `LinkLedger` or to a
  stutter from the same invariant: signing a token again is `Coincide`, a save issues a link
  that is not retired or is shared, and a reset that is under way has opened its own
  (`AcceptedFirst`).

### MembersProofs

* *Moderators.* Nobody else decides about a user a request is at (`ModAlone`), so what a
  review has read and a rejection has written still holds (`ModReviewed`); a moderator
  has an application or is at the sign-up that is about to insert it (`ModApplies`).
* *Points.* Paid rows and the requests that have counted and not paid (`Unpaid`) make up
  what is counted. Between look-up and insert of a reading there is one request, and
  today's row is still missing (`ReadingsAlone`).
* *RateLimit.* A request that was let in, and has missed no ban since, finds none
  (`LetIn`), hence the ban it writes does not replace a longer one. A counter without
  an expiry has a request about to send EXPIRE.
* *Library.* A pair, or a bookmark of a target, that was not looked up twice has one row
  at most, and none while the one request that found none is about to insert it
  (`PairOnce`, `TargetOnce`). A request that names a material and a folder stands for both.
* *RecentViews.* `RoomIsLeft` counts the rows by the room of the views that have not yet
  written. `OneByOne` says, while views come one after another, that the list is the
  front of the history, and in the middle of a batch the front without what the batch
  puts first. Both rest on lemmas about what is left of a list without duplicates:
  its length, its order, its front.

### CatalogueProofs

* *Mail.* Until a mail is off, exactly the providers before its turn were asked
  (`MailAsksInTurn`), and copies beyond doubt are the last one's (`MailCopies`).
* *Review.* Reviews of an item that do not overlap leave the creator told what the row
  is announced as, up to the request that has written a verdict and is about to tell it
  (`ReviewsAlone`, `CreatorsTold`). A query of a count has what the same query would still
  answer, until an item moves (`TalliesHold`).
* *Catalogue.* A course on its way has an id and a code of its own (`InsertsFit`), from
  the unique index that its insert waits for; its name is nobody else's (`NamesComing`).
  A settled user with nothing under way is enrolled as the row says, and the one update
  under way works towards the row it is going to write, from no courses through the
  fetched ones to the fitting ones (`SettledUser`).

### SearchesProofs

* *Recommendations.* What an entry misses that was not SET late is a change whose request
  is about to delete the entry (`RecsOwed`).
* *Previews.* A page tells the truth of each material whose preview was not set since the
  page was computed, whichever pages were cached when (`PagesAreTrue`), and what the
  script makes an image of is not to be skipped by its page (`WorkIsDue`).
* *Listings.* Arithmetic of ranks: how many rows are not behind a row. Rows that only leave
  do not push a shown row behind the pages shown (`ShownOnce`); rows that only join do not
  pull one that is still owed in front of them (`StillToCome`), and a count taken before the
  page still counts the rows (`CountIsRight`), so that the walk does not end early. A kept
  page is as good as a fetched one while it is exact (`StoredRight`).

### SubmissionsProofs

* *Clubs.* `PublicHasNoTargets` is inductive by itself with the types: each write of the
  row, of the departments or of their end records what it leaves in `kept`. The counter
  is the rows and `extra` (`JoinsTally`); a pending club's approval mail is still to be sent
  (`MailsAlone`).
* *Media.* A file a request has uploaded is stored and known to nobody else (`NewIsFresh`,
  since keys are fresh), hence the file of a row's key is stored unless a request that read the
  key has deleted it (`RowPictureIsStored`, inductive with that), and the link of a club's row
  is of its key or of one that a renewal has outrun (`ClubLinks`).
* *Likes.* The counter equals the rows minus the adds and plus the removes that are between
  their two writes; under double clicks a request may remove nothing, which only
  lowers the counter.

### MaterialsProofs

* *FolderNesting.* While no pair is stored during a walk, a walk has seen everything below
  the child except what is still to be visited, and removals only shrink that.
* *MaterialFiles.* The key of an upload under way is in the store and known to its own
  request alone (`KeysOwn`), since keys are fresh; hence no stale deletion reaches it, and
  a resource whose file is gone is one whose deleter is still to write. `Cleaned`
  (without faults a deletion has worked) carries `NoFileLeaks` over the write that
  replaces a file.

### Assumptions

The `ASSUME` of each module is as weak as its proof allows, and the runs evaluate it.
Apart from bounds that are numbers, these are:

* finite sets (`Users` and `LikeRequests`, `Joiners`, `Items`, `Viewables`, `ViewRequests`,
  `Calls`, `Reviewed`, `Rows`, `Illustrated`): a database holds finitely many rows and a
  process finitely many requests. The proofs count them.
* a name for "nothing" (`None`, `Nil`, `NoFile`, `NoPicture`, `NoToken`, `NoCourse`) is none
  of the things, nor, for `NoCourse`, a row of them: NULL is no value.
* `Items` and `Shelves` are disjoint: a bookmark has a column for each, and the ids of
  materials and folders are UUIDs.
* `RecPages` and `Illustrated` are not empty: page 1 can always be asked for, and there is
  something to walk.
* sizes that the code fixes: `Limit`, `PageSize`, `PageLimit`, the number of a limit and the
  size of a batch are at least 1, and `Few <= PageSize`. `Cardinality(Rows) <= MaxPosition`
  says that there are enough positions to order all rows, as time stamps do.

## 5. Not modelled

`PROJECT.json` lists every part with its reason. In short: the text of SQL queries
(one snapshot), tokens' cryptography (fresh values), rendering of images and mails,
logging, configuration, one-off scripts, and reference data with single-statement
handlers. Of modelled parts these are left out:

* slugs and labels of folders and clubs, requests for clubs, view and click
  counters of clubs and adverts, and reading progress: single-row writes;
* the text file of a blog and the writing of comments. A blog cannot be reviewed or
  read today, since `getBlogContent` throws always;
* the ownership of previews: the upload endpoint does not check it;
* who may call what: the roles guard decides on one request and keeps nothing;
* the batch script's answer to an error in a page's status: the client throws first,
  so that code is not reached.

The query of recommendations does not filter by review status; the model does not
look into that query. The definitions in `map` cover about 30 % of the implementation;
the rest is mostly controllers' decorators, data transfer objects, schema
declarations, providers' clients and queries without a choice.

## 6. Plan

1. *Core* (done): search cache, accounts, password reset, likes, folder nesting,
   material files, with their proofs.
2. *Breadth* (done): tables with a check before the insert (`Library`,
   `Catalogue`), counters (`Points`, `RecentViews`, `Clubs`), `RateLimit`, `Review` and
   `Moderators`, `Recommendations`, `Media`, `Mail`, `Listings`, `Previews`; the
   refinement of `LinkLedger`.
3. *Proofs* (done): every invariant and action property of the runs, with one proof
   module for the parts of each composed run.
4. *Refinement*: an abstract toggle for `Likes`, whose commit point is the counter's
   write, and an abstract resource for `MaterialFiles`, implemented where their conditions
   hold; both with proofs, as for `LinkLedger`.
5. *Lemmas worth sharing*: sequences without duplicates appear in `RecentViews` and in
   `Previews`, ranks in `Listings`; they could be stated once.
