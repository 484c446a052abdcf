# Verification of XiaoBaiOS

TLA+ models of the user land of XiaoBaiOS (`src/xiaobaios`), TLC runs on small
instances and proofs checked by TLAPS. File names below are relative to
`src/xiaobaios/apps` for programs and `src/xiaobaios/src` for the C library,
unless they begin with another directory.

The kernel proper (clks), the boot loader (limine), the drivers and most of
`third_party` are git submodules that hold nothing in this repository. System
calls are therefore modelled from how user land uses them, and marked external
in `PROJECT.json`.

## 1. The system

XiaoBaiOS starts a shell, `xsh`, or a desktop, `xde`, as its user land. Both run
every command as a process of its own. Processes share the file system, the
kernel's session (who is logged in), and two files under `/temp` through which a
shell and its programs talk. There are no threads and no signals that a program
handles: concurrency is between processes, between user land and the kernel's
polled devices (network, window manager), and between a program and the power
switch.

| Component | State it keeps | Operations | What makes it hard | What must hold |
|---|---|---|---|---|
| installer, `install2disk_main.c` | files of the hard disk; `/system/install_manifest.db`, `.prev`, `.new`; `update_state.db` | install, update-shell (and dry run), update-kernel, update-all, repair manifest, reset-root, verify | each command is hundreds of system calls that can fail or be cut; retries start from what the cut left; users change files in between | a reported success is one; nothing outside the update's scope is touched; a cut is visible and repairable |
| shell protocol: `xsh_main.c`, `cmd_runtime.c`, the terminal of `xde_main.c`, `su`, `cd`, `exit` | directory, identity, exit request of each shell; `/temp` context and return files; the kernel's session | spawn, context, report, apply, republish by an inner shell, kill after a timeout | two global names for all shells; programs that crash before they report; orphans of a killed program | what a command did reaches the shell that ran it and no other |
| heap, `libc_stdlib.c` | list of blocks over static memory and kernel chunks | malloc, calloc, free, realloc, growth | long legal sequences of splits and merges; memory that is not contiguous | data survives; blocks do not overlap; only memory from the kernel is used |
| SQLite VFS, `sqlite/sqlite_cleonos_vfs.c` | whole files in memory with a dirty flag | open, read, write, truncate, sync, close, delete, file control | a sync rewrites the file; cuts and failing writes in between | a transaction is whole or undone |
| downloads: `wget_main.c`, `httpget_main.c` | receive loop, header buffer, chunk decoder, output file | connect, poll, decode, write | pieces are cut anywhere; ends by length, last chunk, close, silence | "saved" means all of it |
| browser, `browser_main.c`, `browser/*` | current page, history, the form under way, cookies, token, one connection | open, follow, back, reload, submit, fetch with redirects, look up a name | variables that wait from a submit to a load which may fail; tables that fill up; late and foreign datagrams | the request sent is the one asked for; links mean what the page says; cookies are the latest |
| TLS, `tls/*` | one mbedtls session over one TCP connection, its memory, the last error | connect in stages, write, read, close | any stage may fail; a session follows another in the same process | nothing is left of a session, and its error is the one told |
| desktop, `xde_main.c` | six window slots, start menu, drag state, terminal buffer | launch, close, minimize, maximize, drag, poll of every window's events | events of several windows in one poll round; requests that fail | table and window manager agree |
| vim, `vim_main.c` | lines of a fixed buffer, cursor, mode, a pending key, the modified flag | load, insert, delete, open lines, command, save | limits of line and buffer meet pending keys; a save truncates first | a key is one edit; an unmodified buffer is what is on the disk |
| accounts: `cmd_runtime.c`, `user/cleonos_user.c`, `su`, `useradd`, `passwd`, login of `xsh` | users.db; passwd, shadow, group; the kernel's session | create, remove, authenticate, change password | read-modify-write of whole files through fixed buffers; four readers of passwords | a reported success is one, other accounts stay as they are |
| file commands and paths: `cmd_runtime.c`, `cp`, `mv`, `rm`, ... | the tree of files, user, directory | resolve a path, check rights, create, write, copy, move, remove | a copy is cut or fails; prefixes of paths stand for rights; two resolvers | only owned files change; a copy or move never loses the file |
| stdio, `stdio.c`, `runtime.c` | output buffers, capture, stream table | printf family, puts family, open, read, write, close, exit | partial and refused writes between buffer and descriptor | every byte once and in order |
| Lua port, `lua/*`; minizip streams | file streams with push-back; whole files in memory | open, read, seek, push back, write, close | boundaries of buffers and files, failing closes | every byte once and in order |
| terminal window of `xde_main.c` | rows, column, an escape sequence under way, the line typed | type, submit, show the output of a program | sequences cut between two outputs, rows that scroll away | the window shows the end of what was printed |
| partition tool, `partctl_main.c` | sector 0 of the disk | init, create, delete, set the active entry | numbers typed as text, 64-bit sums in 32-bit fields | entries do not overlap and lie on the disk |
| image viewer, `pkg_cjson_min.c` | view geometry; a tree of values | - | - | - |
| rest of libc, system call stubs, small commands | almost none | - | - | - |
| kernel glue, `kernel/core/kmain.c`, `kernel/hal/video/*` | start-up order, framebuffer console, TrueType cache | start, write, scroll | full tables, scrolling | - |
| build scripts, configuration, assets | - | - | - | not modelled |

How they interact: the desktop's terminal and `xsh` are the two roots of the
shell protocol; every program links the command runtime (which reads the context
at its start and flushes its report at its end) and the C library (heap, stdio).
`wget`, `httpget` and the browser use TCP polls and the TLS session; each has its own
copy of the URL and DNS functions. `sqlitetest`
uses the SQLite VFS. The installer runs from the ISO image and writes the disk
the other programs are later started from.

## 2. Modules

| Module | Models | Extends / instantiates |
|---|---|---|
| `InstallUpdate` | the installer's commands, phase by phase | instantiates `UpdatePromise` |
| `UpdatePromise` | what an update promises, without phases | - |
| `InstallUpdateProofs` | theorems about `InstallUpdate` | `InstallUpdate`, `TLAPS` |
| `ShellProtocol` | shells, programs, context and return files, the terminal's timeout | - |
| `ShellProtocolProofs` | theorems about `ShellProtocol` | `ShellProtocol`, `TLAPS` |
| `Heap` | `malloc`, `free`, `realloc` and growth | - |
| `HeapProofs` | theorems about `Heap` | `Heap`, `TLAPS` |
| `SqliteVfs` | the VFS composed with SQLite's rollback journal | - |
| `SqliteVfsProofs` | theorems about `SqliteVfs` | `SqliteVfs`, `TLAPS` |
| `Download` | `wget`'s loop and chunk decoder, and the browser's two chunk functions | - |
| `Desktop` | the desktop's clients, start menu, taskbar and event loop over an external window manager | - |
| `DesktopProofs` | theorems about `Desktop` | `Desktop`, `TLAPS` |
| `Editor` | `vim`: modes, line buffer, load and save | instantiates `TextPromise` |
| `TextPromise` | a text with a place in it and the edits a key may make | - |
| `EditorProofs` | theorems about `Editor` | `Editor`, `TLAPS` |
| `Accounts` | users.db, passwd, shadow and group, the kernel's accounts, and the dialogues that read passwords | - |
| `Files` | path resolvers, rights, and the commands that change files | - |
| `CommandsProofs` | theorems about `Files`, `Partition`, `Accounts` and `Terminal` | `Files`, `Partition`, `Accounts`, `Terminal`, `TLAPS` |
| `Format` | one conversion of printf, in the C library and in the Lua port, with C's own as reference | - |
| `Stdio` | standard streams, capture, the stream table, start and end of a process | `Format` |
| `LuaFiles` | files of the Lua port with one character of push-back | `Format` |
| `MemoryFile` | minizip's files in memory | - |
| `Terminal` | the screen and the typed line of the desktop's terminal | - |
| `Partition` | partctl's boot record and its numbers | - |
| `Url` | what a URL names and what a link stands for | - |
| `Browsing` | a session of the browser: commands, history, fetches, cookies, forms | `Url` |
| `NameLookup` | a host's address: four numbers, or the DNS over UDP | - |
| `TlsSession` | a TLS connection in a program that makes several | - |
| `NetworkProofs` | theorems about `TlsSession` and `Browsing` | `TlsSession`, `Browsing`, `TLAPS` |
| `MCApplications` | one behaviour of each of Download, Browsing, NameLookup, TlsSession, Stdio, LuaFiles, MemoryFile | extends `TlsSession` and `Browsing`, instantiates the others |
| `MCCommands` | one behaviour of each of Files, Accounts, Terminal, Partition | extends the four |
| other `MC...` | constants for TLC | the module they are named after |

Operators called `X_Something` and commented "Fault:" are changed forms of the
operator `X`. No specification uses them; `PROJECT.json` ("mutants") names the
property that each of them breaks, as evidence that the property says something.

### 2.1 InstallUpdate (`install2disk_main.c`)

The disk is a function from logical paths to slots: a complete content, no file,
a torn file, a directory. `manifest`, `prev`, `staged` are the three manifest
files, each present or not, torn or not, with one hash per path. `op`, `pc`,
`todo` say which command runs, in which phase, and which paths of the phase are
left. Every phase handles its paths in any order: the order of the image scan
and of the manifest's lines is no concern of the properties.

* `StartInstall`, `Format`, `Overwrite`, `SetupRootAccount`, `BlankManifest`,
  `Scan`, `ScanDone`: the full installation.
* `StartUpdateShell`, `WriteState`, `BackupManifest`, `StageManifest`,
  `CopyEntry` / `SkipEntry` / `CopyBlocked`, `DeleteObsolete`,
  `TruncateManifest`, `KeepEntry`, `RefreshEntry`, `Cleanup`: the phases of
  `install_update_shell`. `DryRun` is the same command with `--dry-run`.
* `StartUpdateKernel` (also for update-all, which goes on with the shell's
  phases), `StartRepair`, `RepairManifest`, `StartResetRoot`.
* `Interrupt` ends a run inside a phase, as a failed call or a power cut does,
  and leaves the file the phase is writing in any state its calls can leave it:
  the old file, none, a torn one, the new one.
* `BootImage` and `UserEdit` are the world between two runs.

`UpdatePromise` has the same disk and three states, quiet, updating and updated;
a step of the update may touch files of its scope only, each towards the image's
content, and success is reported in one step in which the disk is the image.
`InstallUpdate!KeepsPromise` says that the phases implement it.

Left out: boot sectors (`limine-sys`) and the read-only `verify`; empty files; a
status or a name that cannot be read while the manifest is rebuilt (lines 1180,
1196, 2490 and 2576), which the code takes for no entry and passes over; `Repair` takes
any set of paths but the copies of limine.conf and the kernel, whose repair goes through other code.

### 2.2 ShellProtocol (`xsh_main.c`, `cmd_runtime.c`, `xde_main.c`)

A process slot is free or runs a shell, the terminal, or one of the commands
`cd`, `su`, `exit`, `plain` (changes nothing of the shell) and `app` (does not
know the protocol). `Launch` writes the context, `Spawn` starts the program,
`Boot` reads the context and deletes nothing, the command's action changes its
own state, `Flush` writes the report, `Reap` waits, `Apply` reads the report,
`Rewrite` is an inner shell publishing its state again, `Close` its end.
`Crash` ends any program at any point, and with a shell that dies between the end
of its command and `Apply` what that command reported; `TermTimeout` is the terminal killing the
program it started after 8192 polls, which leaves the programs below it alive.

The variable `alone` remembers whether such an orphan has been alive since the
last command: with one, an old program and a new one write the same two files,
and the properties claim nothing (nothing in the code tells them apart). A name
that is no command leaves everything as it is, a stutter. Batch mode, line
editing, completion and history are left out.

### 2.3 Heap (`libc_stdlib.c`)

Memory is a row of cells, each 8 bytes; `heap` is the list of headers by address,
`mem` what was last written to every cell (a header, the data of an allocation,
nothing), `live` the program's pointers. `Malloc`, `Free`, `ReallocShrink`,
`ReallocExtend` and `ReallocMove` are whole calls; a call that fails changes
nothing. `foreign` is memory between chunks that the kernel did not give to the
allocator: whether a chunk follows the memory before it is the kernel's choice.
Data that nobody will read again is forgotten, which keeps the state space small.
`ListIsHeap` asks of the list that it is the blocks by address, that their sizes add up
to what the heap was given, and (`Tiled`) that they cover exactly its cells (`Given`),
unless a block was merged over foreign memory: then one foreign cell is covered for
each lost one, which `ForeignIntact` speaks of.
Sizes that wrap a word are left out.

### 2.4 SqliteVfs (`sqlite/sqlite_cleonos_vfs.c`)

`disk` holds the database and its journal, `file` the handles (buffer, size,
dirty flag), `io` the write-back under way, cell by cell. SQLite itself is
external: it is the rollback journal protocol (`pc`) in the order its pager calls
the VFS, with `Undo` and hot journals. `Kill` may happen in every state. One
process has the database open at a time, because the VFS's locks never refuse.
`torn` says that the database file is being rewritten or was when the process
was killed; `lost`, that pages were cut off with it which no journal holds.

### 2.5 Download (`wget_main.c`, `browser/browser_http.c`)

A response is a header of some cells and a body of tokens; it arrives in pieces
of every size. `FeedOne` is the decoder's switch on one token, `ReceiveHeader`
and `ReceiveBody` the two halves of the loop, `PollEnd`, `PollExpired`,
`PollEof`, `TlsError` and `WriteFails` its ends. `IsComplete` and `DecodeBody` are
the browser's functions over the whole buffer, a reference to compare with.
Chunk sizes are binary digits with a largest value of 3 in place of hexadecimal
digits with 2^64 - 1; blanks in a size line and headers with bare LF are left out.

### 2.6 Desktop (`xde_main.c`)

`slots` is the table of clients (type, window id, focused, dragging, minimized,
maximized, geometry, what to return to, where the window was gripped), `drawn`
what the taskbar shows, `at` the window whose event queue `xde_poll_events` reads.
`HandleEvent` takes one event and runs its handler to the end. A handler is an
operator from the desktop's variables to new ones, composed of the functions it
calls as the code composes them: `ClientEvent` of `CloseMenu`, `OnFocus`,
`OnPress`, `OnRelease`, `OnMove`; `TaskbarEvent` and `DesktopEvent` of `ToggleMenu`,
`ShowClient`, `OpenClient`, `LaunchTerminal`. Positions and sizes are the code's
own numbers, and differences the code takes without a guard wrap.

The window manager is external. Assumed of it: a new window gets the focus, a
topmost one may or may not; a press focuses the window it is in, of a topmost one
perhaps not; release and moves go to the window of the press; when the focused
window is destroyed any other may get the focus; ids of destroyed windows are
used again; create, resize and move may be refused, a snapshot of an existing
window is not. Focus changes queue events; those for the taskbar and the desktop
are dropped at once, for their handlers ignore them.

`QueueEmpty` skips to the next queue that holds something: an event that comes
while empty queues are polled is one that came before or after. `put` is a
history variable: where the user left a window. Commands typed in the terminal
take long but make no request to the window manager; their effect is in
`ShellProtocol`, their text in `Terminal`. Left out: drawing, and that the
taskbar's last three buttons are not drawn when there is no room for them though
presses are taken there.

### 2.7 Editor and TextPromise (`vim_main.c`)

`ed` is the buffer: lines, cursor, the row on top, the modified flag. `pending` is
the key a two-key command or the waiting `j` of insert mode holds back. `Start`
loads a file or fails; `SecondD`, `SecondG`, `FirstKey`, `NormalMove`, `Prefix`,
`EnterInsert`, `OpenInsert`, `NormalDelete` and `EnterCommand` are the keys of
normal mode; `HoldJ`, `InsertKey`, `LeaveInsert` those of insert mode, each of
which first settles the waiting `j` (`Flushed`); `Write`, `WriteQuit`, `Quit`,
`QuitAnyway` and `Refuse` the commands. `Saved`, `OpenRefused` and `WriteFails` are
the outcomes of a save, which truncates the file before it writes: a failing
write leaves any beginning of the text.

`TextPromise` has one text and one place; its steps are one edit each. `KeysAreEdits`
says that every key of `Editor` is a step or a stutter of it (`Promise`), whatever
limits of a line or of the buffer it meets; a `j` that waits counts as typed
(`Shown`). `faithful` remembers whether the buffer was read
whole (or written whole since): a longer file is cut on load.

### 2.8 Accounts (`cmd_runtime.c`, `user/cleonos_user.c`, dialogues)

A text file is a list of records and whether its last line is ended; a line that
parses as nothing is `Junk`. `UserCreate`, `UserChangePassword`, `UserSetRole`,
`UserRemove` are the library of users.db, `SetPassword`, `AddUser`, `AddGroup` the one
of passwd, shadow and group; neither has a caller in this tree, so each call is an
action by itself. `Login`, `Su`, `Useradd`, `Passwd` and `Logout` are the dialogues, which
ask the kernel (external) and read passwords with readers of their own
(`PasswdLine`, `UseraddLine`, `SuLine`, `LoginLine`): limits and rub-out keys differ.
The loop of a reader is `Pressed`, one step per key. A hash is the password and
the scheme's name; ids are counted in a word of `IdWord`. Every open and write may
fail, and a whole-file write that fails may have written a part (`Outcomes`).
`SetPassword` works on `NamesOnly`: the code cuts each line at its colons to find the
name, and writes the lines of all other accounts back without what stood behind it.

### 2.9 Files (`cmd_runtime.c`, `cp`, `mv`, `rm`, ...)

`tree` maps places to directories, nothing, or contents. A typed path is a list of
names and slashes; `ResolvePath` and `TerminalResolvePath` are the two resolvers
with their limit on length. `CanModify` is the test of rights by prefixes. `Cd`,
`Mkdir`, `Touch`, `Write`, `AppendText` and `Rm` are one step each, `Cp` and `Mv`
start a job: `CopyWrite` writes a buffer, `MvRemove` removes the source, `Killed`
is the end of the process in between. `RunExternal` (xsh) and
`ResolveCommandPath` (terminal) turn a typed command into a program; the search
for the ending ".elf" is in a name's own spelling (`WithElf`), and a path's length
is counted as the code counts it (`Width`). Assumed: the tree the commands find is
one (every node is in a directory), every user's home is a path of legal length,
and PATH begins with /shell, as it does unless the environment of xsh says
otherwise. A typed command is shorter than `CommandMax` (`CommandsAssumption`): the
terminal cuts a command silently at 31 characters and an argument at 159
(`xde_main.c:1624`), xsh at 47 and 175 (`cmd_runtime.c:252`), and what a cut text then
names is left out.

### 2.10 Format, Stdio, LuaFiles, MemoryFile (`stdio.c`, `runtime.c`, `lua/lua_cleonos_compat.c`, `minizip_cleonos_io.c`)

`Format` is what the two formatters make of one conversion and `CText` what C asks
for; floating point is left to its integer part. `Stdio` has for each descriptor the
buffer `buf`, what arrived (`out`) and what the program said (`said`), each way of
writing for itself; writes take any part of what they are given. `lost` is set by a
refused write. `LuaFiles` has slots with a descriptor and a pushed-back character
and the kernel's open files; `strays` are descriptors a failing close left. Its
`Fprintf` formats into a buffer of
`FprintfMax` bytes (512 in `lua_cleonos_compat.c:317`) and writes as many bytes as the
whole text has: those behind the buffer are whatever stands there (`Stray`), and
`overrun` remembers that it happened.
`MemoryFile` has the file in memory with its capacity, where memory grown and never
written is `Junk`, and the file on the disk; `meant` is what a file of C would hold.

### 2.11 Terminal (`xde_main.c`)

The rows, the column, the state of an escape sequence with its parameters, and
the line being typed with its prompt. `Key` types, `SubmitNothing`, `RunClear`,
`RunCaps`, `RunExit`, `RunUnknown` and `RunProgram` are what the return key does. A
program may leave behind that its session is closed: that is a row, and closes the
terminal (`EmitClosed`).
`shown` keeps the events of the session. `Transcript` is their reference: a list of
lines without a window, a column or a buffer for parameters, in which an escape
sequence is one thing that is understood when its last character has come;
`ScreenIsTail` compares its last lines with the rows.

### 2.12 Partition (`partctl_main.c`, `strtoul` in `libc_stdlib.c`)

`mbr` is sector 0: signature and four entries; `InitMbr`, `Delete`, `SetBoot`, `Create`
are the commands with the words as typed. `StrToUl` reads a number with base 0, a
sign and the cut at the word's limit, `Word` and `Field` standing for 2^64 and 2^32.
`made` remembers what was typed for each entry. `NumberMeant` is the number a
reader takes it for, the sum of its digits by their places; `TypeMeant` is the
hexadecimal number the usage text asks for (`<type_hex>`, `partctl_main.c:128`). The
code reads a type as any other number (line 31), so that the two are compared where
0x or a single digit leaves no doubt (`ReadAsHex`).

### 2.13 Url, Browsing, NameLookup (`browser/*`)

`Url` splits, resolves and normalises texts made of tokens, of which "." and ".." are
one each. Links and typed addresses with both, and with queries of their own, are
compared with what they mean (`LinksAsMeant`). In `Browsing` the
session is at a page (`cur`, `loaded`, `shown`) with `history` behind it; `pend` holds
the method, body and length that wait for the next load, `jar` the cookies. A
command (`Reload`, `SetView`, `Back`, `Visit`, `Follow`, `Submit`, `SetField`, `ClearCookies`,
`SetToken`) starts a load, of a file (`ReadFile`) or over a connection: `Reach`,
`Send`, `Receive` (with redirects and the cookies of each answer), `ReceivePart` and
the failures of each; `Enter` is an address that is typed. `wish` is what the user asked for, `trail` the pages seen,
`latest` the newest cookies, all ghosts.

`NameLookup` sends one query (`QueryOf`, which must fit its buffer) and polls: `Receive` takes datagrams from the network,
which delivers them late, again, cut, from others or never; `ParseFirstA` reads
bytes, with pointers. `wget` and `httpget` have copies of these functions.

### 2.14 TlsSession (`tls/cleonos_tls.c`, `browser_fetch.c`, `wget_main.c`)

`stage` is where a connection is, `heap` what each of its parts holds, `sock` the TCP
connection, `session` the structure the caller reads the error from, `cause` the error
that happened. `NoMemory`, `Connect`, `Seed`, `Setup`, `SetHostname`, `Handshake`,
`HandshakeExpires`, `WriteAll`, `Read`, `CloseNotify`, `Close`, `Tell` and `Free` may each
end as mbedtls or the network likes. `WriteAll` may go on for ever (see the hazards).

## 3. Runs

| Run | Instance | Distinct states | Shows |
|---|---|---|---|
| `install_update` | 5 paths, 3 images, one cut or one user edit, a manifest of 2 entries | 2.0 M | a cut, a failure or an edit anywhere, with any commands before and after it: success is success, the old list survives, an incomplete manifest is marked, tracked files stay tracked, only the scope is touched, no torn file is certified, the promise is kept; the inductive invariant of the proofs |
| `install_repair` | 4 paths, 2 images, one cut | 271 k | liveness: a retried update converges |
| `install_untracked` | two images, one edit, no cut | - | **violation**, see findings |
| `shell` | an outermost xsh (3 commands) or terminal (2), two slots below it, 2 accounts, 2 directories | 317 k | effects return, silent programs change nothing, contexts are the right ones, files are gone at the prompt, `exit` closes all, the terminal comes back |
| `heap_grow` | static heap and chunks of a few blocks, 3 allocations alive | 38 k | data survives and the list describes all of the heap after every sequence of calls |
| `heap_foreign` | the same with sizes for which two areas of memory merge | - | **violation**, see findings |
| `sqlite` | 3 pages, 3 transactions | 184 k | atomic commits under kills, failed writes and undo |
| `applications` | a download of about 3000 responses, a session of four browser commands, two lookups, two TLS sessions, calls of stdio, of Lua's files, of minizip's | 423 k | a saved file is whole and the browser agrees about it; requests, history, cookies and links; addresses are the answered ones; nothing of a TLS session is left; every byte once and in order |
| `commands` | one session each of the file commands, the accounts, the terminal's window and partctl | 60 k | only owned files change, a copied or moved file is never lost, the resolvers agree; ids, passwords and reports of the accounts after failing calls; the terminal's window; the boot record |
| `editor` | three lines of two characters, files beyond both limits, six keys | 146 k | the cursor and the lines stay in the arrays, a key is one edit, an unmodified buffer is what is on the disk |
| `desktop` | 640 by 480, start menu, terminal and one program, 4 slots, 4 inputs | 531 k | table, windows and geometry agree, focus and drag flags end right, the taskbar is fresh, windows stay where the user put them |
| `desktop_close` | the same | - | **violation**, see findings |

Why the bounds are enough:

* Installer: two shell files are needed to have one that changes and one that an
  image drops; a boot file for what is kept; the kernel and users.db for what is
  never listed. One cut is enough for each phase to be the one that is cut, and
  any number of complete commands may follow it. Three images and the capacity of
  two entries make an update that needs three fail in the middle. A behaviour has
  a cut or an edit (`OneDisturbance`); both at once are left to the proofs, which
  hold for any number of both.
* Shell: a root, an inner shell and its command are the shortest chain in which a
  report has to be rewritten; three typed commands make one crash, one command
  with effect and one that observes.
* Heap: a header of 4 cells and an alignment of 2 keep the ratio of the code
  (32 bytes of header and 16 of alignment); sizes that are no multiple
  of the alignment, that leave exactly or not quite the room for another block,
  and that need a chunk occur.
* SqliteVfs: a transaction that grows, one that shrinks and one that rewrites the
  file; three of them so that a kill in the second is followed by a recovery and
  a third.
* Download: bodies of up to two chunks with extensions and trailers, data that
  looks like framing, and those with one token changed, dropped or added; pieces
  of one to three cells reach every cut of every body.
* Desktop: a start menu and two clients are the least with which one client is
  opened, closed or shown while events of another are waiting; four inputs are
  two to open a window by the menu and two that act on it (releases are free);
  queues of three let a press, a focus event and a release wait together. The
  presses are in the middle of each button of a modelled program and in a title
  bar, the pointer is dragged to the upper edge, which makes a window large, and
  left of the grip, where the difference must not wrap. `TypesAssumption` says
  that there are fewer types than slots (five and six in the code), and
  `SlotsAreWindows` that no type has two.
* Browsing: four commands are a failing submit, what it leaves, and two loads that
  meet it; a history of two pages overflows with the third; a jar of three cookies
  and a header of twelve characters overflow with the site's cookies; the site has
  links of every kind, redirects, forms of both methods and a host over TLS.
* NameLookup: two lookups so that an answer of the first may reach the second; a
  limit of six steps through a name, met by a circle of pointers; a query of
  21 bytes, which some name exceeds.
* TlsSession: two sessions, a request of two bytes so that it can be cut, two
  errors so that the one told can be the wrong one; two loops of handshake, close
  and silence in place of thousands.
* Editor: three lines of up to two characters, so that splits and merges meet both
  limits and a tab fits only in part; six keys are a mode, an edit, a second one
  and `:wq` with its path.
* Accounts: two calls, the second of which reads what the first left; files up to
  the limit and one line beyond, damaged lines, a missing last newline; ids of
  three bits wrap.
* Files: two commands, one of which may be killed; homes of which one name begins
  with the other; a buffer of two cells and contents of one and three.
* Stdio: a buffer of three bytes and texts up to four; three calls and the exit.
  LuaFiles: two slots and four calls, a buffer of four bytes for fprintf and a text of
  six; MemoryFile: four calls over chunks of two.
* Terminal: a window of three rows of three characters; outputs longer than a row
  and the window, with every control character; a sequence longer than its buffer, and
  one that the end of an output cuts; two submitted lines, programs that close the
  session among them.
* Partition: four commands on four entries; a disk of 20 sectors, fields of 16, types of 32 and
  words of 64 values, so that each of the limits is met without the others; types of one
  digit, of several, and with 0x.

In `applications` and `commands` the first state chooses one program, and the variables of
the others hold `Off` (those of the modules that these two extend hold a first state); the variable `program` is the choice: programs that share nothing but the disk or the network have
no interleavings to look at, and the runs stay few.

`CHECK_DEADLOCK FALSE` is said of `shell` (the outermost shell has closed), of
the heap (memory is full and nothing is left to free in the bound on tags), of
`applications` and `commands` (every behaviour is bounded and ends), and of `desktop`
(xde ends when it cannot create its two fixed windows).

Fairness:

* `install_repair` (`RepairSpec`): weak fairness of the steps of a run, since a
  started program goes on; strong fairness of `StartUpdateShell` and of
  `RepairManifest`: the administrator keeps retrying. Nothing is assumed of cuts
  other than that there are finitely many.
* `shell` (`FairSpec`): weak fairness of each process's step (the kernel
  schedules everybody, and who is asked for a password answers), and of the
  terminal's poll, which counts to 8192 and then kills. Nobody has to type.

Safety runs assume no fairness.

### Findings

* `install_untracked`: the installer reports "preserved ... untracked files"
  (`install2disk_main.c:2742`). A file the user put at a path that the old
  manifest does not list and that the new image ships is overwritten (line 2426).
* `heap_foreign`: `clib_heap_merge_next` (`libc_stdlib.c:87`) merges a block with
  the next one of the list without looking whether it begins where the block
  ends. When the kernel's chunk does not follow the static heap, freeing the
  blocks on both sides makes one block that contains the memory between them;
  `heap_grow` has sizes with which no two areas merge, and all properties hold.
* `desktop_close`: the start menu draws its CLOSE button 54 rows above its lower
  edge (`xde_main.c:2465`) and takes presses on it in rows 326 to 359 (line 2653).
  A press on the button does nothing unless the menu happens to be of 351 to 413
  rows; it is 520, or the screen without the taskbar when that is less.

Observed while modelling and not stated as findings: no text of the repository
promises otherwise, except for partctl's usage text, which is quoted there. The
properties leave these cases out, each in its hypothesis:

* wget and browser: the end of a TLS session, or a long silence, ends a body as a
  success whatever its length or last chunk (`SavedIsWhole` leaves this end out).
  wget refuses a status of 400 and above (`wget_main.c:1067`), the browser shows the page
  whatever its status. Certificates are not verified. A TLS write
  retries without a bound (the hazard at `tls/cleonos_tls.c:535`).
* browser: a submit that fails leaves the length of a body that is gone, and a
  following `v` or `render` sends that many stale bytes with a GET
  (`RequestIsAsked` says so by `wish.spoiled`); both reload with GET what a POST
  brought. A failing `r` loses a page of the history. A cookie's domain is taken
  unchecked, its expiry is ignored, a full jar overwrites its last cookie. A host
  ends at "/" only, so "http://h?x" has the host "h?x"; a link that is a query alone
  is glued to the last segment, a trailing slash is lost.
* names: the question of an answer and its port are not compared; a refusal is
  waited out like silence; names of more than 32 steps are refused.
* VFS: it declares POWERSAFE_OVERWRITE although a cut rewrite loses pages that were
  not written, so `Recoverable` and `AtomicCommit` are conditional on the database
  file not having been cut off (`torn`, `lost`).
* vim: a failed `:w` has truncated the file while an unmodified buffer stays
  unmodified, so that `:q` discards the good copy; `o` in a full buffer shows insert
  mode and stays in normal mode; escape drops a waiting `j`.
* accounts: a users.db of more than 4095 bytes is taken for absent and duplicates
  are appended; appending to an unended file glues two records; files of passwd
  and shadow beyond 16383 bytes are rewritten cut off; after the largest uid the
  next one is 0; the login takes 96 characters of a password where the other readers
  take 128, and obeys the delete key. `ush_account_set_password` loses the hashes of all
  other accounts: line 1248 of `cmd_runtime.c` cuts each line at its colons in place (line
  933), and line 1260 writes back what is left of it, the name (`ReportsTruly` allows this
  loss, and no other change of another account).
* files: `mv` of more than 64 KiB copies the beginning and removes the source; `mv x x`
  removes the file; `touch` truncates. The terminal appends ".elf" to a bare name and
  looks for it in /shell (`xde_main.c:1851`); it does not complete a path or search PATH,
  as xsh does.
* stdio: printf writes at once while puts waits in the buffer, so that mixing them
  on a descriptor reorders output; a refused flush loses the buffer; fread drops a
  partial item; the capture "truncated" note appears for an exactly full input.
* Lua and minizip: `freopen` ignores a failing close and leaves a stray descriptor;
  a formatted text of 512 bytes or more makes Lua's fprintf write the bytes behind its
  buffer; zeros stand before the sign of `%f`, `%#o` with a precision has an extra zero; a
  minizip close after an error writes nothing and returns 0.
* terminal: caps lock upper-cases letters and builtins are lower-case, so it cannot
  be left; an escape sequence cut at the end of one output swallows the beginning
  of the next.
* partctl: a number with a minus sign wraps, so that a huge negative one is a small
  one; base 0 makes a leading 0 octal, and reads a type
  of several digits without 0x as decimal although the usage text says `<type_hex>`
  (`partctl_main.c:128`): a type "83" is stored as 0x53. A boot record without signature keeps
  leftovers as entries and signs them.
* shell: when the shell below dies after it has collected `exit` and before it has
  applied it, the shell above ends too, and reports the identity it had itself: an
  identity that the dead shell's command had changed is not in that report
  (`Delivered` speaks of what is reported to the shell that collects it).
* desktop: a minimized window comes back small.

## 4. Proofs

Eight modules hold theorems. Each proves, for every value of the constants that
the assumptions of its component allow, what a run shows on one instance; in
particular for any number of processes, pages, windows, users, cuts and calls.

| Theorem | Property | Rests on |
|---|---|---|
| `InstallUpdateProofs!TypeCorrect` | `TypeOK` | |
| `InstallUpdateProofs!Invariance` | `PhaseInv`, with `TypeOK` | |
| `InstallUpdateProofs!UpdateIsComplete` | `ShellUpdated` | `PhaseInv` |
| `InstallUpdateProofs!BackupSurvives` | `BackupKept` | `PhaseInv` |
| `InstallUpdateProofs!CutsAreMarked` | `InterruptionMarked` | `PhaseInv` |
| `InstallUpdateProofs!NothingIsLost` | `TrackedUnlessCut` | `PhaseInv` |
| `InstallUpdateProofs!OnlyScopeIsTouched` | `ScopeOnly` | `PhaseInv` |
| `InstallUpdateProofs!TornFilesAreNotCertified` | `NoTornCertified` | `PhaseInv` |
| `InstallUpdateProofs!UpdateKeepsPromise` | `KeepsPromise` | `PhaseInv` |
| `ShellProtocolProofs!PromptIsClean` | `CleanAtPrompt` | its invariant, see below |
| `ShellProtocolProofs!EverythingIsDelivered` | `Delivered` | its invariant |
| `HeapProofs!HeapIsWhole` | `ListIsHeap` | both together are inductive |
| `HeapProofs!DataStays` | `DataIntact` | both together are inductive |
| `SqliteVfsProofs!VfsIsSound` | `VfsInv` | |
| `SqliteVfsProofs!FilesRecover` | `Recoverable` | `VfsInv` |
| `SqliteVfsProofs!ReadersSeeCommits` | `AtomicCommit` | `VfsInv` |
| `DesktopProofs!DesktopIsSound` | `DesktopInv` | |
| `DesktopProofs!WindowsAreSlots` | `SlotsAreWindows` | `DesktopInv` |
| `DesktopProofs!FocusIsRight` | `FocusAgrees` | `DesktopInv` |
| `DesktopProofs!TaskbarShows` | `TaskbarIsFresh` | `DesktopInv` |
| `DesktopProofs!PlacesAreKept` | `StaysWherePut` | `DesktopInv` |
| `NetworkProofs!SessionIsSound` | `SessionInv` | |
| `NetworkProofs!NothingIsLeftBehind` | `SessionIsClean` | `SessionInv` |
| `CommandsProofs!FilesAreSound` | `FilesInv` | |
| `CommandsProofs!SourcesAreKept` | `SourceKept` | `FilesInv` |
| `CommandsProofs!OnlyTheOwnChanges` | `ChangesOwned` | `FilesInv` |
| `CommandsProofs!PathsAlwaysAgree` | `PathsAgree` | `FilesInv` |
| `CommandsProofs!PartitionsAreWhole` | `PartitionsHold` | `PartitionInv` |
| `CommandsProofs!AccountsAreKept` | `AccountsHold` | `AccountsInv` |
| `CommandsProofs!ReportsAreTrue` | `ReportedIsTrue` | `AccountsInv` |
| `CommandsProofs!WindowFollows` | `TerminalInv` | |
| `CommandsProofs!WindowShowsTheEnd` | `ScreenIsTail` | `TerminalInv` |
| `NetworkProofs!BrowserIsSound` | `BrowserInv` | |
| `NetworkProofs!WhatIsAskedIsSent` | `RequestIsAsked` | `BrowserInv` |
| `NetworkProofs!TheWayBackIsKept` | `BackRetraces` | `BrowserInv` |
| `EditorProofs!EditorIsSound` | `EditorInv` | |
| `EditorProofs!BuffersKeepLimits` | `TypeOK` | `EditorInv` |
| `EditorProofs!NothingIsMissed` | `UnmodifiedIsOnDisk` | `EditorInv` |
| `EditorProofs!KeysKeepPromise` | `KeysAreEdits` | `EditorInv` |

The assumptions are the `ASSUME`s of the component, which TLC evaluates for the
values of each run. Every proof has the same shape: the initial states satisfy the
inductive invariant, every action keeps it (one lemma per action, or per function
of the code where several actions share it), and the invariant implies the
property; temporal steps are the last line. The invariants are defined next to the
properties in the component's module, and were model-checked before they were
proved.

**Installer.** The properties say what holds at the end of an update; they are not
inductive, because the steps that lead there are invisible to them. `PhaseInv` says
what each phase has achieved:

* `RunInv`: phase, command and outcome fit together.
* `CopyInv`: while copying, every path no longer in `todo` is the image's; while
  deleting, every one no longer in `todo` is gone; later phases keep both.
* `ListInv`: while the manifest is rewritten it holds only true entries; kept
  and new files that are no longer in `todo` are in it.
* `BackupInv`: up to the truncation the manifest is the one loaded; from the
  backup on `prev` is; from the first phase on the marker is there.
* `OwnedInv`: as long as no run was cut, every shell file that came from an image is
  in the manifest, or will be put there by a phase still to come.

The proof of a step has one case per action (`UpdateStep`, `OtherStep`, commands,
the cut, the environment), with the frame lemma `SamePlan` for the plan of the
update, which depends on image and loaded manifest only. The ends of an update
(`Ending` in the proof of the result lemma) are the clean end, a failure and a
cut; each gives the result properties from the phase it leaves. The refinement
maps every step to a step of `UpdatePromise` or to a stutter.

**Shell protocol.** What holds at the prompt depends on the whole chain of shells
above and below. `PointsInv` and `ChainInv` say which points each kind of process
passes through and who waits for whom. `TurnInv`: while there is no orphan, exactly
one process of the chain can act, so that the two global files have one writer.
Under it, `ContextInv`, `ReturnInv` and `RootFilesInv` say what the files hold at
every point: the context is the one of the shell that launches, the return file is
absent while a program runs, and from the end of a program on it says what that
program changed. `FileInv` makes the three conditional on `alone`: with an orphan
nothing is claimed, and the invariant has to survive until the orphan is gone.

**Heap.** `ListIsHeap` (the list is the blocks by address, covers exactly the program's
memory unless a block lies over foreign cells, and every allocation lies in a used
block) and `DataIntact` (cells of
allocations hold their data, cells of headers their headers) are inductive only
together: a write of a header is harmless because the list is right, and the list
is read from headers that nobody wrote over. The proof goes through the code's
helpers (`SplitEffect`, `MergeEffect`, `ChunkEffect`, `TakeEffect`, `ReleaseEffect`);
`WalkMeetsAll` shows that following the links meets every block, by the least
block it would miss. `CountTiles` turns sizes that add up into cells that are covered: blocks that are apart,
inside the break and off foreign memory leave no cell out when there are as many cells
as sizes say (`Counted`). It needs the alignment of header and static heap
(`LayoutAssumption`), and that chunks are merged only when they touch: the
hypothesis that `heap_foreign` shows to be needed.

**SQLite VFS.** `Recoverable` is about the files, `AtomicCommit` about the handle. `VfsInv`
relates both to the journal: `Undoes(j, f, d)` says that rolling the journal j back
turns the file f into the database d, and `HandleInv` and `DiskInv` say it of the handle
and, while nothing is cut off, of the file, at each place of SQLite's protocol.
`FlushInv` is the write-back, which may be killed after every cell; `CleanInv` says
where a clean handle is needed. From `lost` on, when pages are cut off that no
journal holds, only the types and shapes remain.

**Desktop.** Focus changes reach a client through its own queue, so what a client
believes is wrong until that queue is read, and the queues are read one after the
other. `DesktopInv` therefore speaks of the last focus event that waits in each queue
(`Agrees`): a client whose queue holds none believes the truth; in the others the
last one tells it. A press is in a queue only while nothing after it takes the
focus, and between two presses there is a release (`OneHand`): this is what keeps
two clients from following the pointer. `Fresh` says of the taskbar that it shows the
clients or that a focus event which will redraw it is waiting; `Matched` and
`Consistent` relate table, kernel and the places users chose. Each handler has a
lemma that takes `Sound` with the events still to come to `Sound` after it.

**TLS.** `SessionInv` says for every stage what the connection, the parts of the
contexts, the account of their memory, the error and the bytes sent are; every exit
of the code is the loss of exactly what the stage has. `SessionIsClean` alone says
nothing of a session under way.

**Files.** The first half proves what the path code computes for every text, by
recursion over its components: `WidthRules`, `ComponentKeeps` (a resolved path is
made of names and is short enough, or is refused), `ParseBoth` (parsing one text and
then another is parsing both together), `PathIsItself`. From these come
`ThereAndHere` and `ProgramsAgree`, the two halves of `PathsAgree`, and `UnderIsPrefix`,
which makes a user's rights a prefix. `JobInv` is what a cp or mv that runs has
established: the right to change what it is about to change, and a buffer that is
the front of a file still there; it needs that every node stays in a directory.

**Partition.** `PartitionInv` adds to `PartitionsHold` that what is remembered of an
entry are words as they are typed. `StrToUl` reads digit by digit and sticks at the
largest word; `NumberMeant` is the sum of the digits by their places, and `TypeIsMeant` says
that one digit, or 0x in front, makes it the hexadecimal number. `NumberIsMeant`
says that the two agree below the largest word, and `StuckStays` that nothing read
after it leaves it; a created entry's numbers fit fields, which are narrower than a word
(`WordsAssumption`), so they are below it. `NoOverlapApart` is the step from the code's
comparison of ends to entries without a common sector, `CreateKeeps` the command, which
compares with every entry in use before it writes.

**Accounts.** `AccountsHold` is `TypeOfAccounts`, `UidsDistinct` and `LoginTakesTyped`; the
last two are not inductive. A write that is cut off loses lines, and with them
the largest id, which is then given again: that two accounts have one id can only
happen behind a line with the last word an id can be, and `UidsDistinct` says so of
the file as it is. `IdsAscend` adds where that line stands: in front of the second
of the two, so that a cut which loses it loses that one too. `IdsCount` says the
same of the groups, whose file no behaviour starts with: their ids ascend from
`FirstId` and never reach the last word. `TypedIsKept` makes the kernel's
password the line its keys make; `LoginReadsTheSame` compares the loops, for keys
of which the login's buffer can hold all but the backspaces. Since `LoginMax` is
at most `LineMax`, both loops then go through the same lines, however many
backspaces are typed.
`ReportedIsTrue` is an action property: each of the calls that report success has a
lemma (`CreateReports` to `AddGroupReports`) that says what the next reader finds
and that the first line of every other name is the one it was (after a set_password it
is none, `NamesOnlyIs`), from what appending,
replacing and leaving out a line do to the first line of a name. The id a user or a
group gets is larger than all ids in the file (`NextIsAlone`, `GroupIsAlone`), so that
the look-up by id finds the new line; this needs that the last word is not given yet
(`Plain`). Assumed are `LoginMax <= LineMax` (96 and 128 in the code), that a file's
lines are fewer than the ids (`NumbersAssumption`: a line takes more than one of 16383
bytes, an id is a word of 64 bits), that keys are finite sequences (`KeysAssumption`), that the
marks for nothing, a missing file and a damaged line are no lines
(`MarksAssumption`, `KernelAssumption`), and that a disk does not start with two
accounts of one id (`AccountFilesAssumption`), which the code has no way to repair.

**Terminal.** `ScreenIsTail` compares rows only; `TerminalInv` adds what the next character
depends on. `Window` says that a row is open exactly when the transcript is inside a line, and
that the column is the length of that line. `Escape` says that the state and the
parameters kept are those of the sequence under way, of which the buffer holds the first
`AnsiMax - 1` parameters. `LastRowsGrow` and `LastRowsChange` are the reason that a window
of any height may forget what scrolls away: the last rows of a longer or changed list of
lines are found from the last rows alone. Each function of the code then agrees with one
step of the transcript (`PushAgrees`, `NewlineAgrees`, `CharAgrees`, `BackspaceAgrees`,
`EscapeGrows`, `EscapeEnds`), and so does every output (`ToldPrinted`). Assumed are a row of at
least one character beside its end and a window of at least one row
(`ScreenAssumption`), and that what is typed and printed consists of characters
(`CharsAssumption`).

**Browser.** `RequestIsAsked` speaks of the moment a request is out, and the case that
could go wrong is decided several commands before: `BrowserInv` carries it from there.
Its part `Pending` says of every point of the session that the three variables that wait
for the next load are what the last command asked for, and where `spoiled` is the
reason that they are not; `Page` that the fields typed so far are texts. `Way` says of
history and trail index by index what `BackRetraces` says of suffixes, since a push that
forgets the oldest page is a step on indices. `BodyIsMeant` is about the encoding: what
a server decodes, character by character, from what `BuildBody` puts together is the names
and values that were typed, for every text (`LetterIsRead`, `EncodedIsRead`, `FieldIsRead`).

**Editor.** `EditorInv` is `TypeOK`, `UnmodifiedIsOnDisk`, that a buffer that was read whole
has a path, and that nothing is read before the start. `KeysAreEdits` is an action
property: every key, with the limits of line and buffer it meets, is an edit of
`TextPromise` or a stutter. Its text is one sequence and the buffer's is a list of
lines, so the proof takes a text apart at the cursor into the lines above, the line in
front of and behind it, and the lines below, and has for each helper of the code
(insert, split, merge, delete, open) a lemma that says what becomes of the four
parts. A load is the run of one step per character with cuts at both limits; the text
it leaves, when nothing was cut, is the file.

Recursive functions over sequences are handled as runs: `RunExists` says that a list of
steps has a run, and `Climbs` that what holds at 0 and is kept by a step holds up to n.
Both come from the least number of a set (`LeastNumber`), since the induction theorems
of the library take an operator as parameter, which the installed provers cannot
instantiate.

Only model-checked:

* liveness (`RepairConverges`, `ExitClosesAll`, `TerminalReturns`): fairness and
  ENABLED are beyond the prover's temporal backend here;
* `BytesKept` (`Stdio`, `LuaFiles`, `MemoryFile`): the formatter is a RECURSIVE operator;
* `SavedIsWhole`, `BrowserAgrees` and `AddressIsAnswered`: decoders that recurse over
  responses and datagrams with jumps (chunk sizes, pointers), and what a server or a
  name's owner may send is a constant of the run;
* `CookiesAreLatest`, whose last part compares sums over a set of cookies with sums along
  the jar, and `LinksAsMeant`, where both sides fold over segments: folds take an
  operator, which the provers do not unfold.

## 5. Plan, and what is not modelled

The project has twelve runs; the nine that pass check forty properties between
them. New properties take the place of weaker ones or of ones that a theorem covers.

What could follow, in this order:

1. `NameLookup` and `Download`: the states of a poll loop, without the decoders; then the
   chunk decoder as a run, in the way of `Browsing`.
2. `CookiesAreLatest` without its last part; `LinksAsMeant` with recursive functions in
   place of folds.
3. `LuaFiles` and `MemoryFile`, once `Format` is written without RECURSIVE.

Not modelled:

* parsing of HTML, CSS and JSON, fonts and images (stb): readers of formats without
  state to speak of; drawing and layout everywhere;
* of `xsh`: batch mode, line editing, completion and history;
* of the installer: the boot sectors and `verify`, which change no file or manifest;
* of the C library: strings, locale, mathematics, time, `sscanf`, sorting; they are
  short sequential functions without state of their own;
* temporary files and locks of the VFS: no connection is refused by them;
* system call stubs, start-up, framebuffer console, image viewer, and the commands
  that only print;
* scripts, and the submodules (kernel, boot loader, drivers), which are empty here.
