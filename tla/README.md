# A verification development for the HF-A21 AKS firmware

This directory models, in TLA+, the application code of the AKS radio box: the
firmware of a HF-A21 WiFi module (eCos) that receives Art-Net or sACN lighting
data, passes DMX frames to a SAMD processor over UART 0, and is configured by
AT commands and a small web server. The code is in `src/user/` and, for the web
commands, in `src/websrc/cgi/cgi_v2/cgi_api.c`; the rest of the repository is
the vendor's SDK, its libraries, web pages and build tools.

To check a module: `tlc -config X.cfg MCModule`; to check its proofs:
`tlapm ModuleProofs.tla`. `PROJECT.json` lists the runs, for every definition
the lines it models, and for every property a small fault in a definition that
makes TLC refute it (the operators called "faulty variant" in the modules).

## 1. The system

| part | source | state it keeps | operations |
|---|---|---|---|
| SAMD command link | `UserMain.c` 857-923, 2314-2387, 2644-2754 | `samd_mutex`, `uart_rcv_data`, `uart_rvc_len`, `uart_rvc_done`, `ret_buff`, `battery_info`, `samd_ver` | link, unlink, identify, battery; the UART receive callback |
| firmware download to SAMD / TIMO | `UserMain.c` 2389-2580, `cgi_api.c` 2488-2578 | `firmware_pad`, `pad_len`, `artnet_enable`, `samd_mutex` | update handshake, pages with checksum, done message |
| client table | `UserMain.c` 1554-1850, 2765-2894 | `client_list`, `client_valid_list`, `client_valid_num` | hear a node, age, rebuild the list |
| constellation page | `UserMain.c` 2012-2110, 2899-2953, `cgi_api.c` 776-1186 | `sort_array` | sort, read an entry, print a row |
| settings in flash | `UserMain.c` 166-855, 2167-2312, `cgi_api.c` 295-741 | `g_web_config`, one page of flash | load, default, save, get, set; AT and web commands; reboot |
| sACN receiver | `e131.c` | `last_seq`, socket, multicast membership | join, validate, discard, forward |
| Art-Net receiver | `ArtPollReply.c`, `UserMain.c` 2115-2165 | `artnet_enable`, `gaffer_data`, `dmx_count` | poll reply, forward, overlay of the gaffer's channels |
| main loop | `UserMain.c` 1017-1512 | `ipAddress`, `operation_mode`, settings frames | boot, scan, address, settings frames, battery |
| client thread | `UserMain.c` 1834-2008 | `cli_recv` | announce this node every two seconds |
| upload buffer | `cgi_api.c` 2404-2640 | `upgrade_mem`, `upgrade_file` | upload, upgrade, free, time-out |

**Threads.** UserMain; the UART thread that runs `uart_recv_callback`; the
server thread (UDP 10000); the client thread; the DMX thread (`sACN_main`, for
Art-Net too); the web server; the thread of the AT commands. All have priority
8 and eCos slices time among them, so they interleave between any two
statements. `samd_mutex` is the only lock.

**How the parts interact.** The main loop and the web server use the SAMD link
under `samd_mutex`. A download sets `artnet_enable` to 0, which the Art-Net
receiver and the main loop test before they send. The main loop publishes
`ipAddress` byte by byte, and the server, client and DMX threads read it. The
server thread rebuilds the list that the web server sorts and prints. The web
server and the AT thread write `g_web_config` and its page of flash; the others
read it. The DMX thread reads protocol and universe once, so that a change of
either needs a reboot, which the monitor carries out some time after
`mon_snd_cmd`.

**What is hard.** Waiting without a lock for a callback that writes the same
buffer; answers that come after their time-out; a protocol whose pages have no
number over a link that repeats messages; writers of one UART of which only
some take the mutex; a list that is rebuilt under its reader; aging that has to
happen although every datagram ends the wait; eight-bit sequence numbers over
UDP; a page of flash written in steps by two threads with power that may fail.
`PROJECT.json` lists these hazards at their lines, with the properties that
watch over them, or why none does.

**What makes each part correct.**

- *Link*: an exchange belongs to one thread; the callback is deaf between
  exchanges; what a command reports is what the SAMD did; commands return.
- *Download*: the SAMD gets the pages in order with none left out, success
  means a whole image, with Art-Net at most the rest of one burst of the main
  loop gets in between, and DMX is let through again on every way out.
- *Client table*: one slot per node; the list is the live slots; a node heard
  in the last four seconds is listed, one silent for twelve is not.
- *Constellation page*: every row is a node of the list, each once, in order.
- *Settings*: a restart takes the settings as they were set, never a part of
  what one thread wrote, and the DMX thread works with them.
- *sACN*: no frame older than the one shown; a new frame is never refused for
  long, also after the desk restarted.
- *Art-Net*: frames of the own universe, with the gaffer's channels replaced by
  the last ones of the gaffer's universe.
- *Main loop*: what the other threads tell of our address is an address we
  have; the channel that the radio leaves alone was scanned on this connection;
  the sACN group is joined.

## 2. Plan

The order follows what could go wrong with the box in use. Done in this state
of the project:

1. `SamdLink`, the lowest layer, statement by statement; its proofs.
2. `ClientTable`, and `Membership`, the leases it implements; its proofs.
3. `FirmwareDownload`, and `PageTransfer`, the transfer it implements; it takes
   up the link as a whole exchange and adds the other writers; its proofs.
4. `SacnReceiver`; its proofs are those of the `DmxThread` it is part of.
5. `Settings`; its proofs.
6. `ConstellationPage`: the sort and the rows, composed with the rebuilding of
   the list by `ClientTable`'s steps; its proofs.
7. `ArtNetReceiver`: frames, the overlay of the gaffer, and settings that are
   saved while they are read; `DmxThread`, which composes it with
   `SacnReceiver`; its proofs.
8. `MainLoop`: boot, operation mode, the scanned channel, `ipAddress` and its
   readers; its proofs.

Next:

9. Every safety property of the passing runs is proved, and of the hypotheses
   of the theorems (section 5) those are left without which TLC refutes what they
   say. The commands of the AT thread and of the web pages that set one field are
   one action, `SetName`; a development of each by itself is left.

## 3. The modules

Each component has a module (its state as variables, `Init`, an action per
statement or handler, `Next`, `Spec`, properties), an `MC` module, one or more
configurations, and, where something is proved, a `Proofs` module. Bounds are
constants: they limit what the environment does (calls, noise, downloads,
packets, power failures), never what the code does. Names in the modules are
those of the source.

### SamdLink

Models `Send_Link_Command`, `Send_UnLink_Command`, `Send_ID_Command` and
`Send_Battery_Command`, `Send_SAMD_CMD` with `clear_uart_recv`, and
`uart_recv_callback`. A thread is at one of the places `lock`, `enter`,
`done0`, `len0`, `send`, `wait`, `parse`, `unlock`, and a step is one of the
assignments the others can see. The callback handles a chunk in the steps
check, copy, advance, test, signal; the addition to `uart_rvc_len` is a load
and a store. Where a race leaves the outcome open (the byte before the buffer
is read), either outcome is possible.

A byte is a unit that names the request it answers and its place in the answer.
A line fits the buffer (`LineAssumption`): the answers to the four requests are
short, and `uart_rcv_data` has 64 bytes. `Send_Gaffer_Command`
(`UserMain.c` 2756), which sends without the mutex, has no caller and is left
out. The SAMD is external: it obeys or not, answers late or never, and emits noise,
as the comment at `UserMain.c` 2473 says it does after a restart.

`disturbed` is a history variable: it becomes true when noise arrives during an
exchange, when the two line ends of an answer are handed over in two chunks, or
when a request is sent, the first time or again, while something of an earlier
one is on its way. Those cases do break the report of a command: the code has no
number in a request to tell them apart. `StatusIsTrue` and `OneLineBuffered` are
about the others, and say nothing of late answers, of noise or of a line end in
two chunks.

### ClientTable, Membership

Models `server_thread_main` with the two-second `select` and the aging timer,
`populate_new_client`, `save_valid_client_entry` and `age_client_list`, slot by
slot, since the web server reads the list meanwhile. Time passes only while the
thread waits; `Period` is two seconds. `ipAddress` may take any value at any
time, as the main loop writes it byte by byte; a node whose address equals a
value that is half written is ignored until a later announcement, which no
property forbids. Slot 0 holds 10.10.100.254 (`BootIP`) from the start and keeps
it: every rebuilding copies it into our own row, until the next step puts our
address there. `Membership` is what the table promises: leases of three rounds
for a bounded set of nodes. In the refinement a round takes effect for all slots at its start (`RoundsLeft`).

### FirmwareDownload, PageTransfer

Models `SAMD_firmware_download` with its two attempts, its two tries per page
and the two sends of `Send_SAMD_CMD`, all its returns, and the other writers:
the main loop's bursts of three frames (`left` of them are still to be sent)
and its battery command, sent a second time after a time-out; the DMX thread
with Art-Net (which tests `artnet_enable`) or sACN (which does not; `Gated`).
The SAMD may leave a message unanswered, refuse it, or have its answer lost;
with `Late` an answer may arrive after the time-out. `PageTransfer` is the
promise: pages in order, success for a whole image only.

The main loop tests `artnet_enable`, then gives AT commands and sends its
frames. A download waits two seconds after it has cleared `artnet_enable`
(`Drained`); the code relies on this ("make sure all the command (battery)
waiting for response has finished"). In WiFi client mode one of the commands is
`AT+WSCAN`, whose length nobody knows and which may outlast the delay. `Scans`
says whether it may: if so the delay waits for no burst, frames may come at any
time after it, one may even be on the wire when it ends, and `strays` counts
those that get into the download. `OneBurstAtMost` is what is left of the
code's promise: no DMX frame, no battery command and no second burst get in,
and nothing at all if the AT commands are short.

Four things to know. (1) With `Scans`, `TransferSpec` is false, as TLC shows: an
answer to a stray frame is taken for that to a page, so that a page is stored
after the download has given up. It is checked and proved for short AT commands
only; `NeverBackwards` and `AskedFirst` hold with both. (2) Of what is under way
the delay is taken to outlast all but frames of the main loop: an answer may
come after the time-out of its own command, at any distance, but not after the
delay of the next download. (3) Late answers can make the download pass a page
over: the answer to the second copy of a page is taken for the answer to the
next page. So `TransferSpec` is checked without them too. (4) No one gives
`AT+ARTNET` during a download; it would let frames through. The answer to the
last message is ignored by the code, and a download that fails leaves the SAMD
in its boot loader; both are modelled as they are.

### SacnReceiver

Models the receive loop of `sACN_main` and `e131_pkt_discard` in eight-bit
arithmetic. The desk's packets carry a number without bound, which the
properties use, and its last eight bits, which the code uses. The network loses
(a gap in the numbers, or a packet dropped), delays by up to `MaxDelay` packets
and duplicates. A desk may restart with any number; a second universe shares
the port.

### ArtNetReceiver

Models `process_artnet_msg` with `check_gaffer_packet` and
`replace_channel_data`. Each setting is read in a step of its own, since the web
server may be saving a page: `SaveGaffer` and `SaveUniverse` queue the items of
a page in the order in which they are sent, and `SaveItem` sets the next one.
A channel holds the universe and the value of the frame it came with; all
frames are received into one static buffer. When the length given to `memmove`
is negative the thread ends in `wild`: nothing of what follows is defined.

The ends of the gaffer's range are texts. The script of the page
(`opmode.html` 236-264) compares the numbers that JavaScript makes of them, the
firmware stores the texts and reads them with `atoi`, and nothing in between
tests them. So `Texts` is a set of pairs, the two readings of a text, and the
guard of `SaveGaffer` (`Accepted`) looks at the first one, the DMX thread at the
second: 5 to "1e2" passes as 5 to 100 and is read as 5 to 1. `odd` records that
the range last saved holds a text that is not `Plain`, the same for both.

Four things the code does and the model keeps. The channels beyond the length
of the last gaffer frame are taken from whatever lay in the buffer. What was
remembered stays when the gaffer falls silent or its settings change. The
gaffer's universe is compared with a `char`, which has a sign here, so that a
second universe from 128 on never matches. And the two ends of the range are
saved and read one after the other, so a frame that comes while the page is
saved may be handled with a range that is turned round. `WildOnlyIfTornOrOdd`
says that this and an odd text are the only ways to it. Texts longer than the
place the settings have for them are left out.

### DmxThread

`sACN_main` reads the protocol once and from then on is one of the two
receivers. `DmxThread` is their composition: `ArtNetReceiver` as an instance
beside `SacnReceiver`, and a choice of the protocol at the start that lets one
of them step.

### ConstellationPage

Extends `ClientTable` with the web server: the pointers are set, the list is
sorted comparison by comparison, and 24 rows (`MaxEntry`) are written one by
one, while the server thread takes any of its steps. `sj = si` marks the test
of the outer loop. Four histories tell pages apart: `torn` (the list was being
rebuilt), `unsorted` (it was being rebuilt during the sort), `moved` (a node
came or went), `shared` (a listed node had the address that our own entry
shows). The last comes about in two ways. On a client whose access point has the
usual address, 10.10.100.254, our entry shows that address for a moment of
every rebuilding, while the access point is listed with it. And our address may
change to that of a node in the table: `populate_new_client` compares only what
it hears. A row read at such a moment shows the node twice, so `NoNodeTwice`
excepts our own row then. Of the sort keys, `ip` and `advance` (the page that
does not sort) are instantiated; `SortKey` has `name` too, and a value that
`sort_by` does not know, `none`, leaves the order alone. Keys are numbers,
compared as the code compares texts (which puts 10 before 2).

What is not true, and so not claimed: that a page during a rebuilding shows all
nodes. The list then begins at length one, rows stay away, and the script of
the page (`constellation.html` 713, which inserts rows by number) stops at the
first gap. `get_client_entry` may follow a pointer no sort has set (`Unset`).

### MainLoop

Models the boot up to the creation of the threads, with the places where it
waits for a reset for ever, the test of `artnet_enable`, the channel of the
radio's frame, the parse of the address, and the four bytes of `ipAddress` one
by one. In a behaviour one `reader` looks at them, byte by byte too: the DMX
thread that joins the sACN group, the poll reply, or the announcement; they do
not affect one another. `published` is the address last written to the end,
`overlap` that bytes changed around a reading.

The answer to `AT+WANN` begins with the mode of the WAN port (`wan`), and the
code looks for the address at a fixed place behind it. That is right for
"DHCP,"; for "STATIC,", which `sta_config.html` offers, the first byte becomes 0
and the others are those of the address shifted by one (`Parsed`). Such a node
never announces itself, as its first byte says that it has no address; it
answers polls and joins the group with the wrong one.

A scan (`ChannelScan`) takes the first box in range whose name begins with
"Ratpac AKS", whether or not it is our access point, and of its channel one
character: 10 and 11 become 0 and 1. `boxes` are the channels of those in
range, which come, go and change at any time, and `near` those there were since
the loop last saw that we had no address. `ChannelOfThisConnection` says that
the channel is one of `near`: a scan of an earlier connection never decides. That
it is the channel of our own access point follows only if that is the one box in
range, keeps its channel, and has one of one digit.

Three cases are excepted from `ToldIsOurs`, because the code does not guard
against them. (1) A reading that overlaps with the writing of another address.
The DMX thread joins only once, so that after such a reading it stays with the
wrong interface. (2) `e131_multicast_join` shifts the bytes as signed `char`s:
a byte from 128 on sets every bit above it, so with an address such as
192.168.1.7 it asks for the interface 192.255.255.255. Elsewhere the code
casts the same bytes to `uint8_t`. (3) The poll reply and the join of a client
with a static address.

### Settings

Models `write_data_to_flash` (the sum byte by byte, erase, copy byte by byte),
`web_flash_data_init`, the AT and web commands that change settings, reboot and
loss of power. `AT+DEFAULT` is modelled statement by statement: it clears
`g_web_config`, reads the page, marks it, and fills in the defaults, while the
other thread may write.

The structure is five bytes in the order of the source: the checksum, `name`
for all settings that take effect at once, `suni` and `prot`, which the DMX
thread reads at its start, and `magic`. A byte is the set of its bits, so the
sum is the code's exclusive-or (`Xor`) of all bytes, which cannot tell where a
bit came from, `Summand` skips 0xff when the sum is made, and `Checked` makes it
0 when one is read. A bit written without an erase in between can only go from 1
to 0 (`Burnt`). `Valid` is the test at the start: the sums agree and the magic
bytes are there.

Histories: `alone` and `overlap` (commands that overlapped), `dirty` (a list of
settings failed half-way), `defaulted`, `saved` (what a writer that was alone
had in ram when it erased the page) and `mixed` (another wrote to the page
since). Three cases are excepted from `RestartFindsSettings`, because the code
does not guard against them: commands of the AT thread and the web server that
overlap; a list of settings whose last parameter is in error (it has changed
`g_web_config` and is not saved); a setting with a byte 0xff (skipped by the sum
that is written, refused by the one that is read). `ReceiverFollows` excepts
`AT+DEFAULT`, which changes protocol and universe without a reboot.

`StartsWhole` excepts pages that two threads wrote to at one time. Such a page
can hold settings that never were in ram together and still have the right sum,
eight bits in which bytes trade places: with gaffer_enb 0, sub 1, univ 1 set by
the web server after the AT thread has copied gaffer_enb 1, the page holds 1, 1,
1. TLC finds such a start when the exception is taken out. For one writer the sum would
not do either, since a page that is cut off has a byte 0xff and so the sum 0;
what makes a start refuse it is that the magic bytes are written last.

## 4. The runs

| run | asks | bounds, and why they are enough |
|---|---|---|
| `samd_link` | one conversation at a time, the callback deaf between, answers stable, reports true | two threads, two commands, every chunking of an answer of three units. Both tries of both commands fit, so every late answer and every race between two exchanges occurs |
| `samd_link_returns` | every command returns and gives the mutex back | as above, one chunk size and one unit of noise, which may complete a line or not; the SAMD may never answer |
| `client_table_time` | how long a node stays listed, and that it does not stay for ever | two nodes, units of one second; the history counts to ten, beyond the longest lease |
| `client_table_full` | slots implement leases; the list is the live slots | three nodes and a table for two of them: full, refused, taken again |
| `constellation_page` | a page that no rebuilding disturbs is the sorted list; no node comes twice | three nodes and three slots: the smallest list for which a sort can go wrong and an earlier sort can leave a pointer behind. One of the nodes is an access point at 10.10.100.254, so that our own row shows its address in every rebuilding; our own address stands still; nodes come and are aged at any step of the page. With an address that changes the run is too long to be kept; the theorem covers it |
| `firmware_download` | the transfer in order, nobody else on the stream, every way out, when AT commands are short and answers in time | three pages (a first, a middle, a last one), four downloads in turn, two foreign messages on the wire |
| `firmware_download_late` | with late answers and AT commands that outlast the delay at most one burst gets in, no page goes backwards or to a SAMD that waits for the confirmation, and the download returns | two pages: an answer can be taken for that of the next page, and again; one foreign message at a time on the wire, so that the frames of a burst come one after the other at any places of the download. The theorems hold for any number |
| `firmware_download_sacn` | refutes `StreamExclusive` with sACN | one page |
| `dmx_thread` | what is shown under sACN with wrapping numbers, restarts and a second universe; what is sent under Art-Net, while settings are saved | sACN: numbers near 0, the sign change and the wrap; gaps of 1, 15 and 60; four packets. Art-Net: three channels, so that a range may begin behind the first and end before the last of a long frame or behind the end of a short one; a universe below and one above 128, equal in the low digit; ranges that are turned round when mixed, and one end that the script takes for 3 and the firmware for 1; one page saved |
| `sacn_stale` | refutes `NeverStale` | three packets of four, delivered in any order |
| `settings` | what a restart finds; the DMX thread follows | bytes of three bits, with settings whose sums are equal, 0, or the 0x55 that `AT+DEFAULT` sets; two threads, two commands per start, one loss of power at any step. Two commands overlap in every way |
| `main_loop` | what is told of the address; the channel; the join | two addresses that differ in every byte, with zero bytes and with bytes above 127, as DHCP or static address; up to two boxes in range, with a channel of one digit and of two; settings the radio knows and not; all modes and ways of boot |

Deadlock is checked in all runs but those of `SacnReceiver`, `DmxThread` and
`Settings`, whose environment stops at its bounds (no more packets, no more
commands), or whose thread may end in `wild`.

**Fairness.** `SamdLink`: each thread inside a command goes on (equal
priorities with time slicing), and a thread that waits for `samd_mutex` gets it
in the end (eCos mutexes hand over to waiters). Nothing is assumed of the SAMD.
`ClientTable`: time passes, also between datagrams that keep arriving (strong
fairness of `Tick`: no sender fills the network without a pause), and the
server thread goes on. `FirmwareDownload`: the same for the threads, except
that an AT command longer than the delay (`Scans`) need not end; and the UART is
emptied. `MainLoop`: the main loop and the threads go on; a
download that closed the gate opens it in the end (`DownloadReturns`), and the
main loop, which looks at the gate every half second, then finds it open some
time (strong fairness of `MainStep`). Nothing is assumed of the access point or
of the answers to AT commands.

**Findings.** Two runs show behaviour that a comment of the code denies.

- `firmware_download_sacn`: with sACN, DMX frames reach the SAMD between the
  messages of a download, since `send_artnet_header` does not look at
  `artnet_enable`. A comment (`UserMain.c` 2316) holds that control is not
  needed, because all threads have the same priority.
- `sacn_stale`: a packet that is refused as out of order becomes `last_seq`
  all the same, so that the next old packet is accepted: of 3, 1, 2 the last is
  shown. The comment above `e131_pkt_discard` (`e131.c` 267) says that packets
  out of order are discarded. What the assignment is good for is `SecondIsShown`,
  and the fault that removes it is refuted by that property.

## 5. What is proved

TLAPS proves, for every value of the constants that satisfies the named
assumptions:

| theorem | says | along |
|---|---|---|
| `SamdLinkProofs!TypeCorrect` | types | with `CallNumbered`: who is in a command has a number |
| `MutexBracketsExchange` | `OneConversation` | inductive with the types |
| `AnswerNotReplaced` | `AnswerStable` | from the mutex: only an owner writes `ret_buff` |
| `CallbackOffWhenIdle` | `DeafWhenIdle` | inductive with the mutex: at most one thread listens |
| `ClientTableProofs!TypeCorrect`, `ListStaysBehind` | types; the list never overtakes the slots it is built from | the two are inductive together: `save_valid_client_entry` has no test of its own |
| `ListIsTable` | `ListShowsTable` | `ListBuilt`: while the list is rebuilt, its front is the live slots passed so far, each at the place counting gives it |
| `TableImplementsLeases` | the table implements `Membership`, step by step | the lemma `LeaseOfSlot`: a node's lease is what its one slot gives, the age less one where the round under way has yet to pass; every step of the server thread is a step of `Membership` or a stutter |
| `HeardNodesListed`, `SilentNodesGone` | `HeardIsListed`, `SilentIsGone` | `TimerTested`: a round is never later than the period and one `select`; `LeasesTimed`: how long a node has been silent bounds its lease from both sides |
| `OneSlot` | one slot per node | from the search order of `populate_new_client` |
| `ReportIsTrue`, `BufferHoldsOneLine` | `StatusIsTrue`, `OneLineBuffered`, for any number of threads, commands and chunks | `Exchange`: while nothing disturbed it, the place of the thread that owns the mutex says where the request and every unit of the answer are: on the way, in the chunk, in the buffer, read. `Booked`: requests are numbered, and none is seen before it is sent |
| `FirmwareDownloadProofs!TypeCorrect` | types | with `PageInRange`, `PauseOnce` and `LeftInBurst`: where in the protocol the counters may stand |
| `DmxRestored` | `GateRestored` | `Quiet`: place, mutex and `artnet_enable` determine one another |
| `StraysAreOneBurst` | `OneBurstAtMost`, for AT commands of any length and answers late or not | `FewStrays`: the frames that got into a download and those the main loop has still to send make at most one burst; `Quiet`: once the delay is over no other thread is sending, but for a main loop whose AT command is not over |
| `PagesAfterYes` | `Gated` implies `AskedFirst`, with late answers and long AT commands too | `Asking`: on the wire the confirmation is behind every request to update, so that the SAMD, once it has said "ok" to it, finds no request that makes it ask again; nothing of an earlier download is under way, so that no "ok" of it is taken for this one |
| `DownloadTransfers` | `Gated`, not `Late` and not `Scans` imply that the download implements `PageTransfer` | `Aligned`: one message or answer is under way, and place, message, answer and what the SAMD has stored are in step |
| `PagesInOrder` | `Gated` implies `NeverBackwards`, with late answers and long AT commands too | `InOrder`: the pages stored, then those on the wire, are sorted and go up to the one being sent; no page of an earlier download is left when one starts; of a page, stored and on the wire, there are four copies at most, one for each send |
| `SettingsProofs!TypeCorrect` | types; before a start has its settings no command runs | with `Booting`: until then only the defaults are written |
| `NeverAMixture` | `StartsWhole` | `Whole`: a page no two threads wrote to begins with the bytes of `saved` and is erased behind them, so that one with the magic bytes, which are last, is all of it |
| `ReceiverIsRebooted` | `ReceiverFollows` | `Following`: settings that differ from those of the DMX thread have a web command on its way to the reboot |
| `RestartKeepsSettings` | `RestartFindsSettings` | `Alone`: a thread that was alone when it began stays so, its sum is that of the bytes it has passed, and the bytes it has copied are those in ram; at rest, without overlap, the page is the ram and its sum the one that is read (`Kept`, `Marked`) |
| `ConstellationPageProofs!UndisturbedPages` | `UndisturbedPageIsTheList` | `Undisturbed`: while nothing is rebuilt, the pointers below the length of the list are a permutation of its entries, the sort has put the least in front (`SortedBefore`, `Smallest`), and the rows follow it (`RowsSoFar`) |
| `EachNodeOnce` | `NoNodeTwice` | `SameNodes`: while no node comes or goes the live slots stay those of the sort, and `ListIsTable` writes each back to the entry it had; `OnePointerEach`: a sort that saw the whole list points to each entry once; `RowsShowNodes`: a row is the address of its entry's node, or of our own; `SharingSeen` |
| `NeverShared` | with an own address that stays, and no other node at 10.10.100.254, `shared` is never true: the exception of `NoNodeTwice` does not occur | `OwnAddress`: `populate_new_client` keeps our address out of the table |
| `MainLoopProofs!TypeCorrect` | types | a reading that is not done lacks a byte |
| `ScanIsOfThisConnection` | `ChannelOfThisConnection` | `Scanned`: once an address is lost the loop forgets the scan before it can publish another |
| `AddressToldIsOurs` | `ToldIsOurs` | `Answers`: what a parse may give, a misread address included; `Mixed`: between two bytes `ipAddress` is the front of the new address and the rest of the old one; `ReadSoFar`: an undisturbed reading holds the front of one address |
| `DmxThreadProofs!DmxTypeCorrect` | types of both receivers | `LastCounts`: the last packet of ours, shown or not, left its number in `last_seq` |
| `FollowersAreShown` | `SecondIsShown`, for every pair of sequence numbers | `LastCounts` |
| `NewestAreShown` | `NewestIsShown` | `NetKnown`: what is in the network is no newer than the newest sent; `Follows`: `last_seq` lags behind the newest by no more than the delay and 19, the window of the code, for each packet of another universe that moved it |
| `FramesAreMixed` | `SignalsAreMixed` | `Steady`: what buffer, `gaffer_data` and local variables hold at each place of `process_artnet_msg` when nothing was saved since the frame came |
| `WildHasACause` | `WildOnlyIfTornOrOdd` | `Saving`: the items still to be saved are the rest of one page, whose range is in order as the firmware reads it unless one of its texts is odd |

The assumptions are those on the constants (`ThreadsAssumption`,
`BoundsAssumption` and so on): sizes are natural numbers, names of different
things differ, a line fits its buffer, a row that shows no node
(`Missing`) is no address. TLC evaluates them in every run.

Four theorems have a hypothesis besides:

- `Gated` (DMX comes as Art-Net): `PagesAfterYes`, `DownloadTransfers`,
  `PagesInOrder`. With sACN frames get in at any time
  (`firmware_download_sacn`), and something of an earlier download may be under
  way when the next one starts. `OneBurstAtMost` has this hypothesis itself.
- `~Late` and `~Scans`: `DownloadTransfers`. With late answers a page can be
  passed over, with long AT commands stored after the download has given up.
- `OneAddress` (our address does not change, and if it is not 10.10.100.254 no
  node has that one): `NeverShared`. On a client of an access point with that
  address, and with an address that changes, the exception does occur, the first
  in the run `constellation_page`. The theorem says that there is no third way.

The first two hold in the run `firmware_download`, the first also in `firmware_download_late`.

The properties that a history variable restricts (`disturbed`, `torn`,
`overlap` and so on) are restricted in the theorems in the same way; section 3
says what the code does in the other cases.

Only model-checked:

- liveness (`CallReturns`, `HeardOrForgotten`, `DownloadReturns`,
  `JoinsInTheEnd`): fairness and `ENABLED` are out of the prover's reach;
- the properties the code violates (`StreamExclusive` with sACN, `NeverStale`):
  TLC shows a behaviour.

## 6. What is not modelled

- The bitmap of blocked channels, which the main loop computes from the
  channel, and the fields of its settings frames: arithmetic and formatting
  without state.
- Formatting of pages and parsing of commands, except where a property needs
  what they do; buffer sizes of strings.
- Sizes of an image (`pad_len` keeps sixteen bits, `firmware_pad` 32 KB): the
  model's image fits.
- The socket set-up of the DMX thread, and what the network stack does with a
  join.
- `CFG_AKS_CONS_NUM` (`UserMain.c` 2233) is printed into two bytes, so that
  `advance.html` makes room for one row when there are ten to nineteen nodes: a
  table of that size is beyond TLC together with its rebuilding.
- The scripts of the pages, but for the range check of the gaffer page. One
  thing seen there: the page that numbers universes automatically
  (`constellation.html` 213-340) takes a request that failed for one that was
  carried out.
- The upload buffer: `CGI_upgrade_upload` has no caller for its second step,
  and `CGI_upgrade` hands the image to the vendor's library.
- `auth_check.c`, the boot loader `zload`, the vendor's CGI getters, eCos, the
  SDK's headers and libraries, web pages and build tools: vendored, without
  state of the application, or run elsewhere. They are nearly all of the
  repository: the application is some four thousand lines of `src/user/` and
  parts of `cgi_api.c`, next to headers of the compiler and the SDK, libraries
  and pages.
