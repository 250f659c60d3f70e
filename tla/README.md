# AutomaticXuanShanLi in TLA+

AutomaticXuanShanLi is a desktop program (C++, Qt 6, Poco) with which students
name, annotate, check and upload their homework. It keeps a list of local files,
walks a configured path on an FTP server, creates the student's directory there
and uploads the files from a worker thread. This directory holds a TLA+ model of
it: what the modules are, how they correspond to the code, what TLC checks and
what TLAPS proves.

## The system

Only the sources at the top of the repository are the program, some 1500 lines; the
other 124000 are the headers of `Poco/`, a vendored library in binary form.

| component | code | state | operations | interacts with |
|---|---|---|---|---|
| Window and event loop | `AutomaticXuanShanLi.cpp/.h`, `main.cpp` | the file list, `groupBox_3` (the buttons notes, check, upload), the tip, the output, `uThread` | one slot per button, `on_FTPFinished`, `on_FTPMessage` | its slots nest: `processEvents` and modal boxes start other slots; owns the worker |
| Upload: session and path | `on_upload_clicked` 334-689, `FTP_Open` ... `FTP_AddDirectory` | session, working directory, position in the path | open, login, list, choose, create, enter | server, shared with other clients; the student, through boxes |
| Upload: questions, worker, reports | `on_upload_clicked` 691-751, `UploadThread::run`, `on_FTPMessage`, `on_FTPFinished` | the snapshot of the list, the names listed, the list to upload, queued signals | ask, start, store, compare, report, finish | window thread and worker, by queued signals; server |
| Listing reader | `parseFiles`, `parseDirs`, `getFileSize` | none | read a listing | server's listing |
| Head notes | `on_notes_clicked`, `insertAuto` | the student's source files | read, truncate, write back | file system, `config.json`; editors that save the same files |
| File name check | `on_check_clicked` | none | judge names | |
| Configuration dialog | `ConfigDialog.cpp` | `config.json`, its widgets | read, check, read back, remove, write | opens the path dialog |
| Path dialog | `PathDialog.cpp` | `config.json`, a list of directories, a button | add, remove, drag, save | saves the same file while the configuration dialog is open |
| About boxes, forms, `IFtp.h` | `on_about`, `*.ui`, ... | none | | |

What is hard here:

- **Nesting.** One GUI thread, but slots interleave: the loops over the list call
  `processEvents`, every box is an event loop. A slot that goes on after one finds
  the list, the buttons and the worker as others left them.
- **Two threads.** The worker emits signals from `run()`; they are delivered later,
  wherever the window's thread is.
- **A shared server.** Everything the program learns from a listing may be outdated
  when it acts on it, and a listing that fails half-way looks complete.
- **Files replaced in steps.** `config.json` is removed, created and written, a source
  file is read, truncated and written back, each of which may fail, be interrupted or
  meet another writer.
- **Rows.** Qt tells of the current row before a row is taken, and not when rows move.
- **Failure.** Every call can throw; only `FTPException` is caught. More than a
  dozen exits have to clean up and enable the buttons again.

What makes each component correct:

- window: names in the list are unique; one task at a time; loops follow the list;
  a started task ends; the worker's signals find the worker;
- session and path: buttons, worker and session are released together; nobody
  else's directory is used without consent; supplements are numbered without
  gaps; the walk is where the path says; it ends;
- transfer: nothing is overwritten without consent, but for what a listing does not
  show; what is reported uploaded is there; every file is reported on before completion is; it ends;
- listing: readers return what the directory holds;
- configuration: a save takes effect at once and leaves the other dialog's part alone;
  the file is not lost unless a save fails; what is saved has the form that was asked for;
- path dialog and file list: the buttons fit the rows; a path is saved as it was typed;
- head notes: a text is not lost; a file gets a header each time the loop meets it, and no other;
- name check: there is a complaint exactly where the rule is broken.

## Modules

| module | models | kind |
|---|---|---|
| `Listing` | the three readers as operators on the words of a listing | pure operators |
| `RemoteDirectory` | a directory that other clients fill, and the readers on its listing | state machine around `Listing` |
| `Navigation` | session, remote path, own directory | component |
| `Transfer` | questions, worker, signals, reports | component |
| `UploadTask` | the stages of an upload | abstract specification |
| `Upload` | `Navigation` and `Transfer` on one server; implements `UploadTask` | composition |
| `ControlGate` | what the group of buttons promises | abstract specification |
| `MainWindow` | the slots as the event loop nests them; implements `ControlGate` and `UploadTask` | component |
| `ItemList` | the rows of Qt's list widget, as far as the program uses them | operators, external |
| `FileRows` | `MainWindow` with the current row and the remove buttons of the file list | composition |
| `PathRows` | rows and remove button of the path dialog | component |
| `Entries` | the checks of the configuration dialog's widgets | pure operators |
| `SavedConfig` | what the dialogs promise of `config.json` | abstract specification |
| `ConfigFile` | `config.json` under both dialogs; implements `SavedConfig` | component |
| `CheckedConfig` | `ConfigFile` with the checks of `Entries` | composition |
| `HeadNotes` | what the notes loop does to the files | component |
| `FileNames` | the rule of the name check, and a student who types names | pure operators |
| `MC...` | constants for TLC | |
| `...Proofs` | theorems about the module they extend, with the lemmas on sequences they need | proofs |

How they fit together:

    student -> MainWindow ---------- the buttons and the worker --> ControlGate, UploadTask
                 |  upload: Upload = Navigation ; Transfer ------> UploadTask
                 |                      \- Listing, RemoteDirectory
                 |  notes: HeadNotes    check: FileNames    rows: FileRows
                 |  settings: ConfigFile (Entries, PathRows) -----> SavedConfig

`Navigation` ends where `Transfer` begins (`pc = "ready"`, `TakeOver`); `Upload` joins them.
`MainWindow` sees an upload from outside: the slot runs, starts the worker or fails,
and the worker finishes. That both views agree is what `UploadTask` is for: `Upload` and
`MainWindow` each implement it.

### Listing and RemoteDirectory

A listing is the sequence of words that `ftpin >> str` yields. The readers return
sets where the code returns lists, since the program only tests membership and
shows a choice. `At` counts from zero as `QStringList::at` does, so the index
expressions can be compared with the code one by one; that includes word `i` in
`SizeMatch`, where the other readers use word `i * 9`. Entries may have a name of
two words, an owner that starts with "d", and "." may be listed.

### Navigation

`pc` is the place in `on_upload_clicked`. One call of the session is one step:
`FTP_SetDirectory` and `FTP_AddDirectory` are two each, the listing and the command,
and other clients create directories in between (`OtherMkdir`). A call ends
normally, with an `FTPException` (fault "ftp": `GiveUp`, or for a listing a subset
of the directories), or with another exception (fault "net": `Uncaught`). A command
that fails may have been executed. `$ORDER` and `$CLASS` are the segment kind
"pick", `$ID` and `$NAME` are "own", the rest is "plain". A name is a base and a
supplement number, so `b`, `bM`, `bM1` are `<<b, 0>>`, `<<b, 1>>`, `<<b, 2>>`.
`GiveUp` stands for the lines that every failing exit repeats, `CloseBox` for what
follows the box.

### Transfer

The window's thread (`gui`), the worker (`worker`), the queue of signals (`posted`)
and the server (`store`) take steps in any order. Names with blanks turned into
dashes are the constant `Remote`, which need not be injective. Faults: a file
cannot be opened ("read"), an exception of either sort ("ftp", "net"), a file that is kept
short without an error ("short"), a size that `getFileSize` misses ("dword"), and
"add" clicked during the upload ("clear"). History variables record what the
properties are conditional on: whether the listing was whole, whether there was a name
with a blank in it (`Spaced`), which names other clients stored since, which the student agreed to.
After a name with a blank the lines of a listing are cut in the wrong places (`Listing` has the words): any
names may be taken for listed, or none, and `getFileSize` may find a right or a wrong number.

### Upload and UploadTask

`Upload` instantiates the two halves with shared constants and adds what neither has: the
contents of every directory an upload has left (`files`), so that a second upload
finds what the first one stored, and which directories were ever claimed. Each action
is an action of one half with the other unchanged, but for three at the seams.
`TakeOver` gives the transfer the directory the walk ended in: empty if this session
has just made it, with what was left there, or with files of others. `Ends` is the
end of the transfer, which closes the session and deletes the worker the walk made.
`DeletedInRun` and `TransferUncaught` end both halves. A click is possible between two
uploads and while the worker runs, if the buttons are enabled: that they are not is `SessionHeld`, and what
would go wrong if they were is `WorkerHasSession`. `UploadTask` has one variable, the
stage: `idle`, `slot`, `running`, `emitted`, `ended`, `box`, `over`.

### MainWindow

`frames` is the stack of slots that have started and not returned, each at
`processEvents` ("events"), in the dialogs before it is done ("dialog") or in its
last box ("box"). The student can click only when the innermost frame is in
`processEvents` or there is none; the worker's signal is delivered in any. The
first `processEvents` of a loop comes after its first index test, as in the code.
`LoopNull` is the null pointer that `item()` returns for an index past the end.
Deleting a `QThread` that runs ends the process ("crashed"), and so does an exception
of the session that is no `FTPException`, in the slot or in the worker (`Uncaught`).
`CrashesKnown` says that no other step ends the process by accident.

### ConfigFile, SavedConfig and Entries

`dialog` is the dialog in front, `pc` the place in its `on_buttonBox_accepted`; the code of the
two is the same but for what they merge (`Merged`). Reading back, removing, creating and
writing are one step each. Faults: reading, removing, creating or writing fails, the
process ends ("end"). Results the code ignores are ignored: of `remove` (the file is truncated
by the next call anyway) and of `write` (the dialog is accepted). A file that holds no object
(`Malformed`) is neither shown nor replaced. `Fields` is what seven widgets hold, as one
value; `Entries` says which of them pass, `CheckedConfig` that those are the ones `ConfigFile` saves, and
`MCConfigFile` gives it names, ids and addresses. `accepted` is what was accepted last, part by part. `SavedConfig` is a
register whose parts are replaced one at a time and at once; a save counts as done when it has
written.

### HeadNotes

A file is the version of the student's text (0 for one cut or garbled), its encoding
and the number of headers before it. `insertAuto` decodes UTF-8, or GBK where that fails;
"other" stands for every text for which this is the wrong guess. Read, truncate and write are one step
each, and an editor may save between any two. The list may change in `processEvents` and
while the box is open. `harmed` are the files to which one of the four mishaps happened: a failing
write, the end of the process before it, a save by an editor between read and write, an
encoding mistaken.

### FileNames

The loop body of `on_check_clicked` on paths as sequences of characters: the extensions are
tested in the code's order and cut off by the code's counts, the name is what follows the last
slash. `FourDigits` is the rule itself, said without cutting. `TypedPath` is a student who puts a path
together of characters and extensions.

### ItemList, PathRows and FileRows

Rows count from one, 0 is no row. `ItemList` is external: when the current row is taken, Qt moves it to a
neighbour and calls `currentRowChanged` while the row is still counted; `Neighbours` allows either
neighbour. `PathRows` has the adding, removing, selecting and dragging of the path dialog, `FileRows` the
same of the file list. `MainWindow` has that list without the current row: there "remove" may take any
file. `FileRows` extends it: `RemoveRow` is its `on_remove_clicked` where the file taken is the
current row's, `AddEnds` the end of an adding slot, which makes the last row the current one, and every
other step leaves the rows alone (`RowsStay`). Every step of `FileRows` is thus a step of `MainWindow` or
a selection, and the run `window` checks the properties of both.

## Runs

| run | question | constants and bounds | result |
|---|---|---|---|
| `readers` | do the readers return what is there, does the name check apply the rule? | up to 3 entries, names of one and two words, owners and names with "d", sizes 10 and 20; paths of up to 6 of "1", "x", "/" and the five extensions; one of both at a time | holds |
| `navigation` | session, own directory, supplements, what is left behind, position, end | paths with every kind of segment and "..", one with two own ones, three initial servers, three directories others may create, all faults, 2 sessions | holds |
| `navigation_network` | are failures of the network warned of? | 1 session, fault "net" | violated |
| `transfer` | overwriting, reports | lists of up to 3 files of which two share a name, another client that also stores a name with a blank, all faults | holds |
| `worker_deleted` | is completion always told? | one file, no fault | violated |
| `window` | unique names, one task, loops, gate, stages, how it may crash, the tip, the remove buttons, end | 3 paths of which two share a base name, lists of up to two rows, all buttons, slots nested 3 deep | holds |
| `upload` | do walk and transfer fit together, twice in a row? | a directory that is there, or made by us, or by a racing client; one file; faults of config, file, FTP and network | holds |
| `config` | saves at once, last save wins, lost only by failure | nine states of the widgets, of which two pass, three paths, all faults | holds |
| `config_accepted` | is what is accepted written? | no fault | violated |
| `config_address` | is the address that is saved of the form asked for? | no fault | violated |
| `notes` | the headers a click adds, the text kept | two code files and another, each there or not, with or without a header from an earlier use, 2 versions, each file twice in the list at most, 1 click, all faults | holds |
| `rows` | button and order of the path dialog | up to 5 rows of two directories | holds |

**Why the bounds suffice.** The readers treat each line by itself, except for the
word `getFileSize` tests, which needs a line before or after: 3 entries have both.
A second session is needed to find what a first one left (a directory, a worker);
a third meets nothing new. Supplements 1 and 2 exist at the start and 0 to 3 can
be needed. In `transfer` a name shared by two files, a third file after them, a
file of size 0 and a name with a blank are the cases the code can tell apart. Nesting 3 deep is an adding
slot inside an adding slot inside a loop, or a loop, an adding slot and the signal's
slot. The depth bounds slots that the student starts; a signal is always
delivered. The stack may grow beyond the bound by it. A list of two rows has a row below and one above
the current one. In `upload` the second upload finds
the directory of the first, with the file in it, and offers a supplement. A file
of notes goes through loop and editor by itself, so two code files show every order; that one of
them may have a header from before shows a header on top of a header, and a file that is twice in the list one that is
met twice. The file that is no code file is there and in the list as the others are; only an editor
leaves it alone, since a save changes nothing the loop does with it. Names of four and five digits, with two
extensions or none, in a directory that looks like a name, need six symbols. Five rows have
a current row with two on either side.

**Deadlock** is checked in `window`, where every run of the program ends in
`Ended`, and in the runs of the dialogs, the notes and the rows, where the student can always
do something. The others (`readers`, `navigation`, `transfer`, `upload`) bound
the number of sessions, uploads, entries or characters; after the last one nothing need happen.

**Fairness.** Boxes are answered, calls return or time out (Poco's sockets have
time-outs), threads are scheduled and queued signals delivered: weak fairness of
`Progress` in `Navigation`, of `WindowThread` and `Worker` in `Upload`, of `Answered` and the thread's
steps in `MainWindow`. Nobody has to click, other clients and faults are not fair. In `MainWindow`, `processEvents`
returns after the events that were there when it was called; a student who keeps
clicking can nest slots but not hold one for ever, which is strong fairness of
`Returned` for each depth of the stack.

**What the violations show** is in PROJECT.json under "findings", each with the text of the
repository it contradicts: exceptions other than `FTPException` end the process where a warning is
written for them; the worker is deleted while it may still run, so that the completion is never told;
a `config.json` that holds no object makes a dialog accept and forget what was entered;
and an address with superfluous dots is accepted and saved as if it were an IPv4 address.

**Properties that are conditional** say exactly on what, and so name what else the program does:

- `SizeExactWhenReachable`: `getFileSize` tests word `i` of the listing where the other readers
  test the first word of line `i`; where that word starts with "d" the size is read as 0, and a file
  stored whole is reported as different.
- `NoSilentOverwrite` and `UploadedIsThere`: a listing cut short makes existing files look new, and so does
  a name with a blank among those listed, which also spoils the size a store is judged by; another client may store a file after the listing; and two files whose names differ in a blank and a
  dash are one on the server, where the second overwrites the first and both are called uploaded.
- `LoopFollowsList` holds while nothing is removed; a removal during `processEvents` can leave the
  loop with an index past the end, a null pointer, which is one of the steps `CrashesKnown` lists.
- `LostOnlyByFailure` and `TextKept` name the failures. One of them is a `write` whose result is ignored
  after the file was truncated: the output calls the header added.
- `NotesAddedOnce` counts the headers against the times a file has been in the list since the click: a file
  taken out and added again while the loop runs may get two, and after a removal one may be passed over.
- `LeftOnTheWay`: directories that were entered stay, too, when an upload fails or is cancelled later;
  where a path has ".." they need not lie within each other.
- `TipReady` has one direction only: a file added during an upload makes the status bar say "ready".
- `RemoveAllReachable` likewise: "remove all" stays enabled over a list whose last file was
  removed, since the slot is told before the row has gone and still counts it.
- `OnlyOwnWritten` speaks of paths that end in a directory of the student's own.

## Proofs

TLAPS proves, for every value of the constants that satisfies the modules'
assumptions (types of the constants; that directories are not called "." or "..";
that `Absent`, `Other`, `Malformed` and `NoFile` are no contents of a file), every safety property the
passing runs check, and both refinements of `UploadTask` and those of `ControlGate` and `SavedConfig`:

`ListingProofs`. For a listing of any length that is laid out in lines of nine
words, `ParseDirsExact`, `ParseFilesExact` and `FileSizeExact` say what the readers
return. They rest on `LineAccess`: word `i * 9 + c` of the list is word `c` of line
`i`. `FileSizeExact` needs that no word the directory test reads starts with "d". That the listing of a directory
of `RemoteDirectory` is laid out so, `TokensLaidOut`, says what `FlattenSeq` does to lines of nine
words; it is shown by taking the least line at which it could fail (`Least`). With it the
invariants hold for any number of entries and any order of other clients' steps.

`NavigationProofs`. `TypeInv` adds to `TypeOK` that the loop body runs only at a
segment of the path, that "." and ".." are never created and that no directory has
such a name: without the first the path is applied outside of its domain.
`SessionHeld` is inductive with the facts that the buttons are disabled while the
slot works and that a warning comes after the session was closed. `OwnDirectoryClaimed`
needs to know, at the places between choosing a directory and entering it, that it
was just created or agreed to. `SupplementsInOrder` needs that the listing the
number was chosen from only names directories that exist, and that directories do
not vanish: the model has no client that removes one, so neither does the theorem.
`LeftOnTheWay` is two invariants. `LeftOverInv`: everything made was entered wherever the loop is not about to
enter it. `WayInv`: where everything made was entered, it lies on the way to the working directory, so
what is chosen next cannot leave that way; that it stands for an own segment needs the length of the
working directory, from `CwdFollowsPath`.
`CwdFollowsPath` needs what the directory about to be entered has to do with the segment.

`TransferProofs`. `TypeInv` adds that the worker's index is a file of the list while
it stores or compares. `ReportInv` relates the three places a report can be in: the
reports received and those waiting, in this order, are one for each file before the
worker's index, and the signal that it has finished is the last to wait, if at all.
`ReportsComplete` follows when that signal is received. `SilentInv` says why a file of
`fileUpList` is there: agreed to, not listed, or after the index. `UploadInv`
says that a file reported as uploaded was whole when it was compared, and that only
other clients or a file of the same name have stored there since.

`UploadProofs`. The composition has the two halves as instances, and so their proofs: a step of
`Upload` is one of the walk, with the transfer unchanged, one of the transfer, or one of the
three at the seams, which each half sees as a step of its own (`WalkStep`, `TransferStep`). The lemmas of
`NavigationProofs` and `TransferProofs` are therefore about any such step (`Step`), a transfer that begins
in a directory where something is already and an upload that follows another included, and the halves'
invariants carry over: `WalkStaysSafe`, `TransferStaysSafe`. What only the whole can say is in two more
invariants. `Together`: the transfer works only while the walk waits at its end, both are in the same
box, and a process ends for both; it needs `SessionInv`, by which no click falls into a transfer. From both follows `SessionLastsForWorker`. `Claims`:
whatever a session made or agreed to is remembered, and every directory files were left in is one of those;
it needs `EndInv` of the walk, that a path which ends in an own segment ends in a directory
`OwnDirectoryClaimed` speaks of, and gives `OnlyOwnIsWritten`. For `UploadImplementsTask` every step is mapped to the
step of `UploadTask` it takes, or to none.

`MainWindowProofs`. For any number of nested slots. Three lemmas say what pushing,
replacing and popping a frame does to the stack; everything else uses those.
`TypeCorrect` is inductive as it stands. `GateInv` says which state the worker has
while a slot of a task is on the stack, which `OneTask` leaves open: `OneTask` and
`FinishedFindsThread` follow from it, and with it every step is one in which a task
starts, ends or stays, so that the window implements `ControlGate`. `LoopInv` adds
that a task's slot which shows a box is the innermost one (nobody can remove a file
below it) and that what a loop has worked on is forgotten when it returns;
`LoopFollowsList` follows, and from both `CrashesKnown`: the button of the upload is
disabled while there is a worker, so no click deletes one that runs. For
`ImplementsTask`, `PhaseFromTask` reads the stage off the one frame of a task, or off the
worker if there is none; the eight steps of an upload then move it on and
the others leave it. `TipInv`, for `TipReady`: nothing starts over a box but a slot with a box of its own, so
the tip a loop sets before its last box is still there when it returns. `RowsImplementWindow` carries
all this over to `FileRows`: its steps are steps of `MainWindow` or change the current row only. `RowsInv` adds to
its two properties that the current row is in the list and that "remove all" is enabled where there is one;
`RemoveAllReachable` needs that a slot that adds stays on the stack until it sets the row.

`ConfigFileProofs`. `IInv` adds what is known inside a save: it belongs to an open dialog
with acceptable widgets, has read the document accepted last and merged its own part into it, and
the file still is that document, gone or empty as far as the save has come. That no dialog
opens or closes during a save is what makes the second dialog harmless. The refinement maps a
save to the step that writes, so `IInv` has to know that nothing saved since it read.

`HeadNotesProofs`. `TypeOK` bounds the index where it is used to write. `KInv`: a file in
hand that nothing happened to is in `fileData` as it was saved last, in an encoding that is
recognised. `NInv`: a file has the headers it had at the click
and those the output speaks of; and the headers, with one more where the file is still ahead of the loop, are no
more than the times it was in the list, since paths in the list are distinct and the index only grows. What the
loop has passed is spoken of, as long as nothing is taken out. The other slot that goes through the list is there too:
`NamesAreChecked` is about paths of any length. A path ends in the same extension as its name, since
no extension holds a slash (`NameEnds`); two extensions a name ends in have the same length, so it does
not matter in which order they are tested (`OneLength`); and what is cut off is what remains (`StemOf`).

`PathRowsProofs`. `RowInv`: the current row is the last of those typed, or the row they are to go
below. The rest is what `InsertAt`, `RemoveAt` and `SubSeq` do to a sequence of three parts.

Each invariant is preserved by every action; the proofs have one step per action,
and the theorem combines it with the initial state.

Only model-checked: liveness (`UploadEnds` of both, `TaskEnds`), which is out of the prover's
reach.

## Abstractions

- The names this program gives to directories and files have no blanks (the path dialog, the upload
  slot and the worker replace them). Those of others may: `Transfer` has what such a name does to a
  listing of files. In `Navigation` it can make a listing of directories miss some, as one that is cut
  short does, but not show one that is not there. `Upload` has no such files.
- No base name of `Navigation` ends the way a supplement does.
- A listing that is cut short is cut between lines.
- Other clients do not remove directories or files; they do replace files.
- `Transfer` lets other clients store only under the names of `OtherNames`.
- The local files do not change during an upload.
- What `config.json` says is chosen anew at every click of "upload" and "notes"; how it is
  written is the subject of `ConfigFile`.
- In `MainWindow` "remove" may remove any file; `FileRows` has the current row.
- In `Upload` files are not added during an upload (`Transfer` has that).
- Only one process uses `config.json`. A file that cannot be removed can still be truncated.
- An editor that saves a file keeps the headers it has. An encoding is recognised or
  mistaken as a whole.
- Characters in `FileNames` are lower case, since extensions are compared without case.
- What Qt does to rows and signals, in `ItemList` and in the stack of `MainWindow`, is taken
  from how the code uses it.
- Texts are left out, except for what properties need: the verdict of a report and
  the kind of tip.
- An exception that leaves a slot or `run()` ends the process.

## Not modelled

The about boxes, the source page, forms and resources have no state; that the boxes are
modal is in `MainWindow`. `IFtp.h` is an interface nobody implements or includes. The
headers of `Poco/` are more than 98 of 100 lines of the repository: a vendored library, used in
binary form through a dozen calls of `FTPClientSession`, which are modelled as external from
their use. Of the program's own sources every function that changes state is modelled. Left out of
them are the formatting of output, dates and headers, the setting up of widgets, and
which texts a box shows.

## Plan

All modules the survey asked for are there. What could follow, in this order:

1. The part of liveness a prover can see: a measure of what is left of the path and of the list
   that every step of the walk, of the window and of the worker decreases, so that an upload can only
   be endless if other clients' steps are.
2. A client that removes directories and files, in `Navigation` and `Transfer`, and the weaker
   `SupplementsInOrder` that remains.
