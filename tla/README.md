# A verification of the Ronde des facs

The *Ronde des facs* is a race between student unions. Runners register on a web
site, are given contactless cards, and pass their cards over a reader at the ends of
each lap; a dashboard shows how many runners have run how many laps. This directory
holds TLA+ models of that system, the TLC configurations that check them, and proofs
that TLAPS checks.

## The system

| Part | Code | State it keeps | Operations | Talks to |
|---|---|---|---|---|
| Card station | `Card/main.cpp`, `pcsc.cpp`, `clientWebS.cpp` | PC/SC connection, response buffer, `option`, `id` | the loop of `main`: connect, wait, activate, ATR, exchange, prompt, save card, save lap, disconnect | reader and card (PC/SC), operator (stdin), database (one connection per statement) |
| Race database | `BDD/rdf.sql` | tables `participant`, `carte`, `passage` | their constraints; `nbTourCoureur`, `nbCoureurDepartement`, `nbCoureurSexe`, `topRunner`, `chronoRunner`, `nbCoureurTourSexe` | shared by all the others |
| KPI web service | `RondeDesFacs/src/StoredProcedure.java` | none between calls | call of a procedure, result set to JSON | database, dashboard |
| Directory web service | `RondeDesFacs/src/LDAP.java` | none | one search | LDAP server |
| Registration site | `web/traitement.php`, `connexion.php`, `logout.php`, `profil.php`, `inscription.php`, `header.php` | PHP sessions, files in `img/avatar` and `img/certif` | register with two uploads, log in, log out, show the profile | table `participant` |
| KPI front end | `web/views/index.html`, `js/highchartsUtils/highchartsUtils.js`, `js/servicesUtils` | `_charts`; `_begin`, `_top`, `_max` of a square zone | one request per chart, callbacks, paging | KPI web service |
| Form helpers | `web/js/custom.js`, the form of `inscription.php` | fields of the form, the validity message of `mdp2` | `validateMdp2`, `computeAge`, `checkEleve`, the post | registration site |
| Open-data dashboard | `js/events.js`, `js/dataUtils/dataManager.js` | `dataJsons`; charts, tags and the map of the page | click an item, answer of `getJSON`, click a tag | JSON files; its elements are commented out in `views/index.html` |
| Hoozin dashboard | `js/highchartsUtils/HoozinAdminHome.js` and the scripts of `web/xslt` | `_entities` of the topper zones; `_begin`, `_top`, `_max` of the square zone | arrows, clicks on charts, pages, scripts of the answers | a data service that is not here; no page of this commit loads it, `highchartsUtils.js` was made from it |
| Leftovers | `deleteDraw.php`, `partie.php`, `clessCardType.cpp`, `DebugClientUTIL.cpp` | | | not called by the parts above |

The hard behaviours: a card is placed or taken between any two calls to the reader;
calls fail and their results are not always looked at; several stations write to one
database, and their programs end and start again; an operator types what is no
number; a stored procedure reads the race while it moves; two persons register at
once, and share directories and a table without keys; a card is given while its
bearer, or another, registers; a field of a form changes without the event that its
handler waits for; an answer replaces what a handler or a chart still points into.

What makes each part correct:

- *Station and database*: a passage is counted for the runner of the card that was
  read; a placement is answered for once; a credit once recorded stays; a card that
  is placed is answered for unless the reader keeps failing.
- *KPI service*: what is sent is the chart of the rows, less a last group of one
  row; no runner is missed by the lap counts because the race goes on; a failure is
  a 503 and nothing else.
- *Registration*: whoever registers or logs in sees a profile and a certificate of
  his own, and a card goes to the row of its bearer.
- *Form*: two passwords that differ are posted only where no handler ran, and the
  age is that of the runner or, at first, one less.
- *Front end*: a chart draws each row over its own category; the zone shows no laps
  that were not run and pages within its bounds.
- *Hoozin dashboard*: index, arrows and what is shown of a zone agree; a click on a
  chart ends; a page stays inside its table.
- *Open data*: charts, tag and map of a dataset agree whenever the answer comes and
  wherever it stops.

## Modules

`RaceDatabase` <- `RaceLedger` <- `KpiService`, `TopRunners`; `RaceDatabase`,
`CardId` <- `CardStation`, which implements `RaceLedger`; `KpiResponse` <-
`KpiService`, `KpiCharts` <- `ResultSets`; `Registration` <- `RaceDay`;
`TopperZone`, `SquarePager` <- `AdminHome`; `RegistrationForm` and `OpenData` by
themselves.

| Module | Models | State and actions |
|---|---|---|
| `RaceDatabase` | constraints of `carte` and `passage`, `nbTourCoureur` | operators on the tables, shared by the modules that write or read them |
| `CardId` | how a serial number becomes a key of `carte` | `CardKey`: answer and first status byte, cut at a zero byte (`strcat` of a `char*`), compared by collation weights |
| `RaceLedger` | what stations and database promise | abstract: a card id is shown, and once shown gives at most one row |
| `CardStation` | the station programs and the readers | `pc` is the place in `main`; one action per call or statement, each with its failures |
| `KpiResponse` | the loop of `StoredProcedure.call` over a result set | the locals after each row (`After`) as a recursive function, and the chart that the rows should give (`Chart`) |
| `KpiService` | one call of the service while the race goes on | one step per SELECT of the procedure; the race moves by `RaceLedger` |
| `KpiCharts` | what `highchartsUtils.js` draws of a response | the points of the line chart, the slices of the pie (`Total` is its inner loop) |
| `ResultSets` | the result sets that these two are given | `rows`, which come one by one: a state is a result set |
| `TopRunners` | `topRunner` and the `SquareZone` that shows it, while the race goes on | `begin`, `max`, the rows appended; clicks, SELECT, callback, failure, reload |
| `OpenData` | `events.js` and `dataManager.js` | requests, stored datasets, charts, tags, map; clicks and answers |
| `Registration` | `traitement.php`, `connexion.php`, `logout.php`, `profil.php` | one step per statement or upload of each person's request |
| `RaceDay` | `Registration` and a station's `saveCardID` on one table | `carte`: whose row a card is bound to, and who brought it |
| `RegistrationForm` | the form and `custom.js` in one browser | fields, message, date; typing, keyup, blur, post, reload, midnight |
| `TopperZone` | the topper zones of `HoozinAdminHome.js` | list, index, arrows and entity of each zone; what the thread runs |
| `SquarePager` | its square zone | `_begin`, `_max`, the pages under way |
| `AdminHome` | both on one page | their steps, one handler at a time |

### Card station

`reader` and `live` are the reader and the exclusive connection to the card on it;
`buf` is `baResponseApdu`; `option`, `id` are the locals of those names; `jammed`
says that stdin starts with a word that `scanf("%d")` cannot read. `got`, `answers`,
`boundBy` and `lapOf` are histories: no guard reads them.

- `PCSC_WaitForCardPresent` returns when a card is there, or with an error or a
  timeout: then `main` calls it again, whatever the error was (`WaitAgain`), for
  ever if it lasts.
- `PCSC_Connect`, `PCSC_ActivateCard` and `PCSC_GetAtrString` end the program when
  they fail. `PCSC_EXIT_ON_ERROR` first spins on `_kbhit` with the connection it has
  (`ExitOnError`, the place `key`), and ends at a key (`KeyPressed`); the end of the
  process closes the connection (`Exit`). The `getchar` after the loop is the same
  place, reached by `PCSC_Disconnect`, which may fail and leave the connection.
- `PCSC_Exchange` has three ends: the card answers with 90 00, with another status
  word, or not at all. In the last case `main` goes on with the old buffer, and
  since the length passed may then be anything the test of the status word may
  succeed or not.
- `NoUid` stands for every content of the buffer that is no serial number:
  uninitialised, or the status word of an error. That no card id of a card is equal
  to that of `NoUid` is an assumption.
- `LapCreditsCardRead` is about two passes of the loop, the one that gave the card
  and the one that recorded the passage: if both had an answer, their serial numbers
  are `Alike`. Cards that differ after a zero byte, or by a letter's case, are one
  card for C and MySQL, and the runs hold such pairs. Where a pass had no answer the
  buffer is of an earlier card: `boundBy` and `lapOf` are then `None`, nothing is
  promised, and `stale_uid` shows it.
- `Student` and the two `Insert` steps may each be lost, since no result is looked
  at. Both functions write past string literals and `etuId`, a pointer with no
  target, is filled by `scanf`: undefined, so that a process may fault (`Crash`,
  possible at every step) or send a statement that the server refuses (the lost one)
  or the statement that the source spells. On a build in which saving a card always
  faults, the behaviours are a subset of these.
- `id` may be any participant after the SELECT: the student number that is typed is
  the operator's choice, and the last of several rows wins.

The serial numbers with a quote or a backslash are left out (`Quote`): they change
the statement itself.

### Race database

The primary key makes `carte` a function, the foreign keys are the guards
`CarteAccepts` and `PassageAccepts`. `PASS_IDMACHINE` and `PASS_CHRONO` are read by
none of the modelled queries and left out.

### KPI service

`Select` is one iteration of the loop of `nbCoureurDepartement`; `sets` keeps whom
each SELECT met. The procedure has no transaction, so that each SELECT sees a state
of its own. `Respond` reads the first result set with `KpiResponse!Response`.
`nbCoureurSexe` is the same procedure over another column: `IdentOf` stands for
either. The race is `RaceLedger`, and not the stations themselves: that the stations
implement it is proved (`StationsImplementLedger`), so what is shown here of the lap
counts holds with them. Participants are fixed during a call. `Groups` is the set of
the positions in `Idents`, the values of the column in the order of the collation,
that a SELECT has a row for.

Of the eleven result sets the response holds the first, that of the runners without
a lap, and of that all groups but the last: each group is one row, and a last series
of one row is never put. `SendsFirstCount` says what a reader of the chart gets,
namely one category, 0, and for every group but the last those whom the first SELECT
met, among them everyone of the group who has no lap when the response comes. The
Javadoc of `call` promises the response of the procedure
(`StoredProcedure.java:47-48`); `SendsEveryGroup` states that of the first result
set alone, and the run `lost_group` violates it.

### Charts and zone of the page

`KpiResponse` gives series of which the last is lost when it has a single row (only
the branch that continues a series looks at `isLast`): `SendsTheChart` says exactly
this, and with a row for each group, as the histograms have, it is always the last
group. `LinePoints` draws the k-th row of a series over the k-th category, which is
the row's own only if no series skips one (`Regular`).

`topRunner` may give any order that its `ORDER BY` allows, one row for each card,
`PageRows` (9) rows from the index. The order is that of the code, lowest count
first, though the page says "Top des coureurs." (`views/index.html:109`):
`PageIsTheBottom` states what a page of it is, and `PageIsTheTop`, which the run
`top_order` violates, what the page says. `request` is the one that `initArrow`
makes: `Select` is the server's reading of the tables, `FillSquareKPI` the callback,
and the race goes on before, between and after them. `table` is a history of the
laps that the server saw; both properties are about the runners who had a card then,
since one given later is in no row. The arrows move `_begin` but pass the wrapper's
id as the index, so that their own requests fail, and `Fail`, an answer lost before
or after the SELECT, has no callback. `FillSquareKPI` appends (`content.remove` does
not select the columns) and counts `_max` from what `_begin` is by then. No page has
the class `adminHomeWrapper` that the handlers of the arrows ask for: with such a
page the arrows are as modelled, without it `Previous` and `NextArrow` never happen.

### Open data

`Callback` is the whole callback: it stores the dataset, formats all stored ones for
the map, and draws charts and a tag if the page has no element of the dataset's
class. The element of a chart is appended, with the class, before the call that
draws it (`events.js:56-71`), and that call may throw: the KPI that `index.html:21`
makes has neither `createColumnChart` nor `createMonoSerieChart`. `Cut` is what is
then on the page, the last chart `Undrawn` and no tag; since line 53 asks for the
class, no later answer adds anything until the page is loaded again.
`ChartsHaveTheirTag` says that this is the only way in which charts and tag come
apart. A dataset of `Throwing` holds a record whose address the formatter cannot
split: the callback stops after the store, as does that of every later answer.
`dataJsons` never loses a dataset, so that the map after a tag was removed and
another item clicked counts the removed one too; `MapCountsCharted` is therefore an
inequality. A dataset has finitely many records (`RecordsAssumption`): an answer is
an array of JSON.

### Registration

A person's request goes through `avatar`, `certif`, `insert` and `select`, and
requests interleave between these. `files` says whose file has a name, the name
being the typed number and the extension; `move_uploaded_file` replaces and may fail
unnoticed. The SELECT by number may give any row with that number. `by` in a row and
the owner of a file are histories. `session` is the row whose columns `$_SESSION`
copies. A certificate of an earlier request under the same number is that person's
too; `ProfileIsOwn` and `CertificateIsOwn` are about persons, not requests. An
e-mail and a password are one value, a login; a person may have several
(`LoginsOf`), as when the form posts the e-mail that `checkEleve` fills in.

`RaceDay` puts the station's `saveCardID` next to these requests. It is one step
here, its SELECT being the only statement that reads `participant`; the steps of the
station itself are those of `CardStation`, whose `Student` takes any row. The query
has no order: any row with the typed number may come last. With no row, `id` is what
an earlier SELECT left or not initialised (`found` is false), and the card may go to
any row. `bearer` and `found` are histories.

### Registration form

One action per event. A password field may change without a key (`ChangeMdp`: the
mouse, the browser's own filling), and `validateMdp2` runs at `KeyUp` only;
`unchecked` is the history of that. `checkEleve` looks at no directory and writes
constants, so that an e-mail typed by hand is lost each time the number is left; a
click on the button leaves the number first, Enter does not. `Post` is what the
browser itself tests: required fields and the message.

`computeAge` compares the month of the text, from 1, with `getMonth`, from 0, and
leaves the days out: from the birthday to the end of its month the age is one short.
`Age` is the age at a date. The age is not computed again when days pass. Where it
is one short at first, the birthday was in this month, so that the next one is
eleven months off: `AgeWithinOne` says that until then it is at most one short, and
`AgeNotOver` that it is never above the runner's, however long the form stays open.

### Hoozin dashboard

A page has one thread: `at` is the handler that runs, and while it is not `idle`
nothing else of the page moves. `Refresh` replaces a zone as a whole and starts the
script of its answer, which `addEntity` runs row by row and `ScriptEnds` ends.
`Written` is the row that the style sheet writes; one of `TopperZone.xslt`
(`Summed`) writes a message instead if all values are 0 (lines 217 and 264-268),
while its script adds the rows: the handlers then find no element to write into
(`Rewritten`), so that the message stays and the arrows walk the list behind it.
Duplicates are left out, and so are the rows over the max that
`PostTopperZone.xslt:130` passes, alone of the sheets (`Capped`); a chart may have a
point for each row all the same. `changeTopper` calls a `do ... while
(_entities[id].index != index)`: `GoNext` and `GoPrevious` are one turn. A point
past the end of the list is never reached, and that loop does not end: it stays in
`GoNext`. `Grouped` assumes that the monthly rows come month by month, as
`CommunitiesMonthlyTopperZone.xslt` expects of its data service.

The arrows of `SquarePager` each ask for a page, and `begin` is set by the script of
the answer, in whatever order answers come. `NextPage` has two tests and no `else`:
with `begin` between 2 and `Top` it asks for page 1 and for `begin - Top`, which is
below it, and the later answer wins. `SquareInit` is the state after the script of
the first answer: before it `HoozinAdminHome.js:794-796` have 0 everywhere and the
zone has no arrows. From `begin = 1` this needs a table whose last page is not a
full one, which is what `BelowOneIsUneven` says. `Totals` are the `MaxRow` of tables
and do not change while the page is open.

## Runs

| Run | Instance | Shows |
|---|---|---|
| `one_station` | 1 station, 3 cards of which two are alike, 2 participants, all options, words, 1 passage, with fairness | one answer per placement (the exclusive connection makes up for the wait that `main.cpp:87` leaves out); only alike cards are mixed; a card placed while the station waits comes to a prompt, is taken, stops the program, or is under a status call that fails for ever |
| `two_stations` | 2 stations, 2 alike cards that move, 1 passage | the inductive invariant; recorded credits stay; refinement of `RaceLedger` |
| `kpi_service` | once, result sets of up to 5 rows, IDENT null, empty or one of two, two AXIS values; then 3 participants, 2 departments, 2 cards, lap counts 0 to 2, 5 passages, with fairness | the response is the chart less a last series of one row; when the loop throws; points are over their own category if no series skips one; slices add up; no runner is missed; the response is that of the count 0 for all groups but the last; a call is answered though the race goes on |
| `top_runners` | 2 runners, 3 cards, pages of 2 rows, zone of 3 from 1 to 11, 4 passages | the arrows stay in range; laps shown were run; a page is that of the lowest counts |
| `registration` | 2 persons with numbers and logins of their own, one with two logins, 2 rows, 1 card | profiles, certificates and cards are one's own |
| `registration_form` | 2 passwords, births in three months, months of two days, 23 midnights | when passwords that differ are posted; the age is at most one short for eleven months |
| `dashboards` | one page open at a time: a zone with the message, one with a max and a monthly one, lists of up to 3, a point more than that, pages of 2 in tables of 3 to 5; or 3 datasets, one of them unreadable, 2 requests each; with fairness | index, arrows and what is shown agree; a click on a chart ends; pages fit; charts and tags agree but where a chart threw; the map counts what is charted |
| `stale_uid`, `unchosen_lap`, `shared_profile`, `lost_group`, `top_order` | those of `one_station` with a serial number that is a prefix of the other, of `registration` with one number for two persons, of `kpi_service` and of `top_runners` | what the code does against a comment, a prompt, a page or a Javadoc of its own: see the findings in `PROJECT.json` |

Two runs hold two questions each, which share no state: `MCKpiService` goes through
the result sets before any call is made, and `MCDashboards` has one of its two pages
open.

Bounds: `MaxPassages` bounds the rows of `passage`, `MaxRows` those of `participant`
or of a result set, `MaxCount` is the 10 of the procedure's loop, `Choices` and
`Words` say what the operator may type. At the stations one passage is enough, since
a passage touches no earlier one; two stations and two cards give every pair of
steps that can interfere, since a step of a station touches its own state and the
tables only; the cards of `AlikeOrNot` are alike by a zero byte and by a letter's
case, the two ways there are, next to one that is not. With `MaxCount` 2 and five
passages a runner passes from each count to the next while the loop is anywhere, and
one runner leaves the range. A third row in a result set distinguishes first, middle
and last; five allow two series on either side of a change, with two AXIS values
each. In `top_runners` a runner has two cards, and from 1 to 11 by threes the last
page is a short one; two requests for a dataset are the late and the repeated
answer. In `registration_form` the days go from December to November of the next
year (`MaxMidnights`), so that the month of 0, the turn of the year and every number
of days within eleven months are met. In `dashboards` a list of three has a middle,
four rows have a duplicate of one that is not the last, and tables of 3 to 5 rows
end evenly and unevenly; no page below `Lowest` (-3) is asked for, which is below 1
by more than a page. In `registration` one card is enough, since cards touch nothing
of each other. Symmetry is used only where no liveness is checked.

Deadlock is checked in every run.

Fairness. `one_station`: the calls to the reader return, with or without an error
(`WF` of `Card(s)`, the four calls of the loop and the repeated first one; PC/SC
calls have timeouts or fail), and so does the disconnection. Nothing says that a
call ever succeeds: a status call that fails for ever is the exception that
`PlacementResolves` names. `kpi_service`: the server goes on with a procedure that
it has begun and the service with its loop over the rows (`WF` of `Select`,
`ProcedureEnds` and `Respond`). `dashboards`: a handler that runs is not interrupted
(`WF` of a turn of its loop). Nothing is assumed of operators, keys, cards, clicks,
answers over the network or the restart of a program.

## Proofs

`CardStation_proofs`. `TypeOK` and the properties are not inductive: `StationInv`
adds that a live connection has a card on the reader (`LinkNeedsCard`), that an
answer was given over a connection that is still there and that no second exchange
is on its way (`AnswersNeedLink`), that after an answer the buffer is that answer
(`BufferIsAnswer`), and that rows of both tables have the card id of what they came
from (`CarteIsBound`, `LapsAreOfCards`). Each action preserves it (`InvNext`). From
it:

- `OneAnswer`: at most one answer per placement;
- `OnlyAlikeAreCredited`: a lap goes to the card that was read or to one alike, when
  both passes of the loop had an answer. `CarteIsBound` and `LapsAreOfCards` give
  two serial numbers with one key; `OneKeyAlike` shows that these are alike, since a
  key is the weights of the bytes before the first zero (`CStringShows`,
  `KeyShows`), and no hypothesis on the serial numbers is needed;
- `CreditsStay`: no step changes whom a passage is counted for;
- `StationsImplementLedger`: the step of a station is a step of `RaceLedger` or
  leaves it as it is, the card id shown being that of the buffer from the prompt to
  the statement.

`KpiService_proofs`. The loop's invariant `UncountedAreAhead` says that a runner not
yet counted has at least `v1` laps: it needs that laps never go down
(`RaceStepGrows`), which needs that cards are never given again. At the end `v1 >
MaxCount`, hence `NoRunnerMissed`. `LapsGrow` is the action property.
`LaplessAreCounted` holds at the first SELECT and afterwards because the set of
those without a lap only shrinks. `FirstCountIsSent` adds what the loop of the
service makes of that SELECT's rows: they have one AXIS, so that the response has
one category (`OneCategory`), and a group for each value that a runner without a lap
has (`GroupsMatch`), in the order of the collation (`Ranks`, `RanksOrder`). Each
group is one row with an IDENT of its own, so that it is a series that the next row
puts (`FirstRows`, `PutSeries`): all but the last.

The same module proves what the loop over a result set does, for result sets of any
length. The library's theorem of induction cannot be used, so `Induct` derives
induction from the fact that a set of numbers that is not empty has a least element
(`Least`, which needs only that < is well-founded): a statement about all n becomes
a set of numbers that holds 0 and with each n its successor. The invariant of the
loop is `Loop`: after n rows without a failure the open series holds the rows from
the last place where the IDENT changed (`Run`), the series already put are those of
all earlier places, in order (`Puts`), and the categories are the AXIS values met.
`FirstRow` and `NextRow` show that a row preserves it, `AllRows` that it holds to
the end. From it `ResponseFails` and `ResponseSeries`, about any sequence of rows,
and in the states of `ResultSets`:

- `FailsOnlyOnNullOrEmpty` and `ChartIsSent`: that each series comes once needs that
  the rows are told apart by RES (`RowsAreNumbered`);
- `DrawsTheRows`: the categories start with the AXIS values of the first series
  (`FirstAxes`), which no other series leaves (`RegularAxes`), so that the k-th
  point of a series is over the AXIS of its row (`PointIsRow`), and each row that
  was sent is a point of one series (`RowInRun`);
- `SlicesAddUp`: the series sent follow each other without a gap (`SeriesFollow`),
  so that the sum over the slices of an IDENT up to a series is the sum over its
  rows up to the last row of that series, by induction over the series and, within
  one, over its rows (`RunTotal`).

`RaceLedger_proofs` holds the lemmas on lap counts that both readers of the race
use. `TopRunners_proofs`: `BeginInRange` needs that `_max` never exceeds that of the
page (`MaxInRange`), which needs that a page has no more rows than the zone asks for
(`PageRowsAreTrue`); `ShownIsReached` needs `RaceStepGrows`. `PagesAreTheBottom`
follows from the order of the rows and from every runner with a card being among
them (`OrdersNameAll`, `PageIsLowest`): the page that is read is the first one, and
who is not on it comes after it (`PageIsGood`). While the answer is under way and
while its rows are shown the race goes on: laps of those left out only grow, and a
card keeps its runner (`PageStaysGood`, with `RaceStepKeepsCards`).

`OpenData_proofs`: `ChartsHaveTheirTag` is inductive with the types and with
`ChartedIsStored`; that the charts a throw left are never taken for none needs that
there is at least the one that threw (`NoCut`). `MapCountsCharted` is not:
`MapHasCharted` remembers that the map was drawn of a set of datasets that holds all
those with charts. Both sums, the map's and the property's, are folds over sets of
datasets: `PairsSum` shows that the number of pairs of a dataset and a record of the
code satisfies the equation of the fold, and `OneSum` that only one function does,
since the subsets of a finite set are well-founded. More datasets have no fewer
pairs, hence `MapCountsTheCharted`.

`Registration_proofs`. `RegistrationInv` says that what is stored under a number or
a login came from a person who typed it. `ProfilesAreOwn` and `CertificatesAreOwn`
follow if no two persons type the same number or the same login (`Distinct`). The
run `shared_profile` drops it: a person gets a session on the row of another, and by
the same number replaces a certificate. `CardsAreOwn` uses that a behaviour of
`RaceDay` is one of `Registration` (`DayIsRegistration`), so that what was proved
there holds, and that the rows of a number are its person's (`RowsOfNumber`).

`RegistrationForm_proofs`. `FormInv` adds to the types that after a keyup the
message is true (`MessageIsTrue`); from it `DifferentOnlyUnchecked`. `AgeIsLow` is
about the operator alone: at any date `computeAge` gives the age or one less. That
the age of a runner does not go down from a day to the next (`TomorrowGrows`) then
gives `AgeIsNeverOver`. `AgeIsAtMostOneLow` counts days (`Ord`): `AgeIsRecent`, in
the invariant, says that today is at most `midnights` days past the month in which
the runner becomes one year older than shown, and eleven months more do not reach
the birthday after that one (`OrdBound`).

`AdminHome_proofs`. `ArrowsAgree` is not inductive: `TopperInv` adds what the arrows
are while a script adds rows (`ScriptInv`, the index being 0 until it ends) and
while a loop runs (`LoopInv`: the arrows are at least as true as the index has come,
and the index asked for is still ahead, which is `LoopsDoNotPass`).
`IndexStaysInRange` and `ArrowsTellTheTruth` follow. `ZonesShowTheirIndex` needs
what a zone shows while a script adds rows (`ScriptShows`), the message apart, which
no handler rewrites: the row it will open on, which is the first of the list or, in
a monthly zone, the last that is left to add; there a row that is left out must be
one of the entity added last, since the rows of a month come together
(`TailIsGrouped`). `PagesAlwaysFit` is inductive with the types over all pages under
way. `EvenTablesStartAtOne` strengthens `BelowOneIsUneven` to all pages under way
starting at one more than a multiple of `Top` if the table ends where a page does
(`EvenPages`).

Assumptions: those named in the modules (`UidsAssumption`, `NoUidAssumption`,
`WeightAssumption`, `NoneAssumption`, ...), evaluated by TLC in the runs, and the
hypothesis of the theorems on registration, `Distinct`.

Every invariant and action property of the passing runs is a theorem. Only
model-checked: `PlacementResolves`, `CallIsAnswered` and `ChangeTopperReturns`,
which are liveness under fairness and out of the prover's reach; and the violations.

## Not modelled

- `chronoRunner` and `nbCoureurTourSexe` of `rdf.sql`: queries that nothing in the
  repository calls and that change nothing; `nbCoureurTourSexe` selects as
  `nbCoureurSexe` does.
- The connections of the KPI service, which are never closed: when one is given back
  is decided by the connector and the server, whose code is not here.
- `LDAP.java`: one search per request, without state, called by no page.
- `clessCardType.cpp`, `DebugClientUTIL.cpp`: comparisons and debug output that
  `main` does not call. `PCSC_WaitForCardRemoval` and `PCSC_GetVentorName` are not
  called.
- `HoozinAdminHome.js:5-395`: the registry of charts builds options for Highcharts
  and for `hoozin.UI`, whose source is not here; `_setUserInfo` and its like write
  labels.
- `loadProfilePic` and `CheckRep` of `custom.js`, `deleteDraw.php`, `partie.php`:
  parts of a drawing game without pages or tables here.
- `queryBuilder` of the open-data dashboard, which is not called.
- Vendored libraries (Highcharts, Bootstrap, jQuery, MySQL headers), style sheets,
  generated and build files. They are most of the lines of the repository
  (Highcharts and Bootstrap alone are about 30,000), so that the lines modelled here
  are a small share of its total and a large one of its own code.
