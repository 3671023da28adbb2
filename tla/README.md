# Formal models of pypy-libtrace

pypy-libtrace gives Python programs access to packet traces. Python classes
(`src/lib/plt/plt.py`) sit on C functions compiled through cffi
(`src/lib/plt/build-cplt.py`), which call libtrace. Three smaller modules
complete it: `ipp` (addresses and prefixes), `natkit` (flow keys, sequence
numbers) and `pldns` (a wrapper over libldns). These TLA+ modules model its
operations and the programs that come with it; TLC checks them on small instances
and TLAPS proves the main results for every value of their constants.

Everything is single threaded. What makes the code hard is that state is
*shared and cached*: many Python objects stand on one C record, records hold raw
pointers into a buffer the next read overwrites, a type is a tag some later call
changes, and an answer often depends on which property was looked at before.
Only the event loop meets the outside world, through time and arriving packets.

## 1. Inventory

| Component | State | Operations | Interacts with |
|---|---|---|---|
| Object layer (`plt.py` 83-520, 586-900, the payloads; `build-cplt.py` 85-303) | one `struct pi` per Packet, more for transport objects and payloads; the Python objects on each | `read_packet`, getters `layer2` .. `sctp`, payloads, `proto`, transport checksums, constructors | libtrace's packet buffer; natkit reads a record's `proto`, `l3p`, `dp` |
| Trace reading (`plt.py` 270-361, `build-cplt.py` 334-383) | `started`, `timeout`, the libtrace handle | `conf_timeout`, `start`, `pause`, `close`, `read_packet`, iteration | libtrace events, `select`, `time`; fills the Packet's record |
| Output traces, filters (`plt.py` 197-264, 380) | `started`, `used`, the libtrace handle | `conf_*`, `start_output`, `write_packet`, `close_output` | libtrace; copying programs read a trace, change its one Packet and write it |
| Field accessors and setters (`plt.py` 505-1426) | none of their own | read or write octets at `l3p` or `dp` | rely on the tag and lengths of a record |
| TCP options (`plt.py` 1036-1096), SCTP chunks (1428-1486) | a cursor, a list | loops over lengths taken from the packet | a record's `dp`, `rem` |
| Checksums (`build-cplt.py` 184-303) | none | one's complement sums, pseudo headers | move `dp`, `rem`, `proto` of the record they are given |
| natkit flows (`natkit.py` 66-236) | a flow key (`fkey4`/`fkey6`), home prefixes | `IPflow`, `FlowHome.flow`, `fwd_key`, `rev_key`, `home_key` | reads a `pi`; hands its address bytes to `ipp` uncopied |
| natkit sequence numbers | the caller's | `seq_add` .. `seq_gt` | - |
| ipp (`ipp.py`, `build-cipp.py`) | an address buffer, a length; both may change | constructor, `from_s`, comparison, hash, `is_prefix`, `first_bit_different`, `network`, `length =`, `complement` | aliases a caller's cdata address; is a key of dictionaries |
| pldns (`pldns.py`, `build-cpldns.py`) | a status and a packet pointer | `ldns(obj)`, `is_ok`, accessors | moves `dp`, `rem` of a payload's record; libldns |
| Programs (`doc/examples`, `lib/*/test-*.py`, `try-*.py`, `test/`) | counts, dictionaries, a place in a script | read, select, change, count, copy | all of the above |

What makes each correct:

* **Object layer.** A record never mixes two packets; a cast of `pi.data` to a
  libtrace packet is always guarded; a tag tells which header is at `dp`; a
  payload starts after its header; a failed call leaves a usable record.
* **Trace reading.** The flag agrees with libtrace; a read ends when a packet
  comes, at the end of the trace, and after the timeout; it does not give up early.
* **natkit and ipp.** Both directions of a conversation meet in one dictionary
  entry; a key, once used, goes on naming the same flow; equal prefixes hash alike.
* **Accessors.** What is read was captured; an assignment changes its own octets.
* **Prefixes.** Order, equality and hash agree; containment is that of bits.
* **Options, chunks, DNS.** The loops end and stay inside the captured bytes, and
  two ways of asking give one answer; a message is read from where it starts.
* **Copying.** The wanted records, each once, in order, as they are to be, all of
  them in the file at the end.

The hazards, each with its source line and the properties about it, are listed
in `PROJECT.json`.

## 2. Modules

### PacketViews - the object layer

`heap[i]` is a `struct pi`, record 1 being the Packet's own; `held[i]` the
classes of the Python objects the program keeps on it. `epoch` counts the
packets read and so names what libtrace's buffer holds, `cur` is the packet in
it, `ret` the outcome of the last call, `summed` the place whose checksum it
read or wrote.

Bytes are abstracted to what the code branches on. A packet is a *Shape*: can
`get_pkt_info` decode it, its ethertype, its transport protocol, how much of the
transport layer was captured. A pointer is the read that filled its memory and
the header it points at. A count is none, too few, or enough: 0, 1, 2.

What libtrace finds at a record's `l3p` is `Headers`. The code chooses between
libtrace's IPv4 and IPv6 function by the ethertype *in the record*, which `ip()` and
`ip6()` set without looking at the octets. Only on the packet in the buffer and with
its version is the answer the packet's transport header; once the buffer was reused,
on bytes from Python, and where the version is the other one, it is any member of the
constant `Misread`: nothing, a header in the right place, or one `inside` something
else. `Decoded` is the same for `get_proto`, which goes by the version nibble.

Each public call that changes, shares or makes a record is one action; the C
functions it calls are operators (`GetPktInfo`, `GetTransportInfo`,
`GetTransPayload`, `ForChecksum`). A getter that overwrites the shared record
(`layer2`, `layer3`, `ip`) goes through `Share`; a call that makes a record goes
through `Make`, which also lets the program drop another one, so that programs
of any length fit in `MaxPi` records. A NULL dereference gives `ret = "crash"`
and ends the behaviour.

### TraceRead - reading with a timeout

The flags of `_trace`, the state of the libtrace handle, and the loop of
`event_read_packet` as two program points, `event` (before `trace_event`) and
`select`. Clocks are relative: `since` counts the ticks since the second that
`time_now` holds began, so the C test `time(NULL) >= time_now + user_timeout` is
`since \div Second >= timeout`, and the fraction of a second at which a read
begins is chosen freely. Outside are `Tick`, `Arrive`, `End` and `Noise` (the
descriptor becomes readable for something that yields no packet, for instance
one the filter rejects). `source` says what `trace_event` reports of an idle
trace: a descriptor to wait on (IOWAIT) or a time after which to poll again
(SLEEP), rounded down to whole seconds as the code does.

The two modules meet at `read_packet`: TraceRead models when it returns and with
which outcome, PacketViews what a return does to the record. Whatever TraceRead
calls `packet` is PacketViews' `ReadPacket`, the other outcomes its
`ReadNothing`, or `ReadPacket` with an undecodable packet where `get_pkt_info`
raises.

### FlowKeys, PacketCounts, FlowTable - flows

`FlowKeys` holds the values: an address is its bits, a key is an `fkey4`/`fkey6`,
`Rev` is `rev_key`, `HomeKey` is `home_key`. `AfterNetwork` is what
`c_mask_network` leaves in the address it is *called on*: it clears the octets
after the boundary there and not in the copy it returns. IPv4 and IPv6 addresses
have one width here, and differ by version.

`FlowTable` is the dictionary program of `test-IPflowDict.py`: a packet is looked
up under `fwd_key`, then `rev_key`, else a new entry keeps its IPflow. A dictionary
owns its keys (they are strings), but an entry's IPflow does not own its addresses:
`src_prefix` and `dst_prefix` point into its `fkey`, so `network()` on one of them
(`NetworkOfFlow`) changes the stored flow. A FlowHome program (`FilePacket`) files
packets under `home_key` while `network()` is called on its prefixes
(`NetworkOfHome`). The non-IP packets that `IPflow` answers with None change
nothing and are left out.

`PacketCounts` is the abstract specification: the packet just seen, a count for
each direction of each flow and the set of forward keys, the first packet of a
flow being forward. `last` is there so that a step must count the packet that came.
FlowTable implements it with `counts` read from the entry of the key or of its
reverse and `forward` the dictionary's domain. It models no code and has no
entries in the map.

FlowTable starts where PacketViews' `MakeFkey` ends: a `MakeFkey` that returns
"ok" delivers one of `Packets`.

### HeaderFields, FieldAccess - reading and assigning properties

`HeaderFields` is a table with a row for each getter of the header classes: its
name, the octets it asks for (`need`) and the nibbles it looks at (`lo .. hi`).
The four integer widths and the masks of the code are spans of nibbles there.
`FieldAccess` puts one object of one class on a memory of nibbles that begins at
`l3p` and goes on behind what was captured, because assignments that miss their
field do so by less than an octet or by many. `Readable` is what every getter of
the object would give; each action is one setter, or `set_l3_cksm`, with its own
length check, its own branch on the version and its own mask. A getter changes
nothing (`proto` of IPv6 does, which is PacketViews' `GetProto`), so getters are
no actions. The objects on which it is run are those PacketViews shows to be
possible: whole, cut short, re-tagged by another view, quoted by ICMPv6, made from
bytes.

### PayloadWalks - loops over lengths that a packet tells

`option_numbers`, `option(n)` and `chunks`, one action per turn of a loop, on any
octets. What was captured and what the header claims are separate numbers, and
may be negative as the code computes them. `NoLengthAt` is the Python IndexError
of an option kind in the last octet.

### IpPrefix - prefixes as values and as keys

An IPprefix is its version, its bits and its length, `NoLength` for None; objects
are mutable and are kept in the order they were made. The constructor copies a
bytearray but keeps a cdata (`ipp.py:35`), so objects may have the same octets:
`octets` names for each the first object that had them, `packet` tells which of these
lie in a packet. `OfAddr` makes a prefix of another's octets, `OfPacket` is
`src_prefix`, and `PacketWritten` an assignment to the packet's address or the next
read. What is written to the octets of one object (`Written`) is then the address of
all its `Sharers`, as dictionary keys too (`changed`). Not modelled are addresses that
overlap in part, as those of an IPv4 and an IPv6 header would at one `l3p`, and a cdata
with the length of the other version. A dictionary entry keeps the
*hash under which it was filed*, so an entry whose key changed later is found, or
missed, as Python would. `Hash` maps to a record instead of a number: two records
that the C hash maps to one number are told apart by `==` anyway. `Spoiled` is
what `c_mask_network` does to the address it reads. `alive` becomes FALSE where C
writes outside an address, and nothing is asked of the process after that.

### SeqArith - sequence numbers

Two numbers that a program moves, and `apart`, how far they really are apart.
`2 * Half` is the range (2^32 in the code). `Differences` is the set of results
that the signed subtraction may have in a build: wrapped, or, if the compiler
folds the comparison because overflow is undefined, the true one.

### RecordCopy, CopyTrace - copying programs

`CopyTrace` is a program that reads a trace and writes records of it to an
`_output_trace`: the four of `doc/examples` (`copy-first-n`, `copy-icmp`,
`copy-icmp6`, `arp-anon`), `try-output.py`, `try-internet.py`, and any other
script of the calls on an output trace. A record is what the programs ask of it.
Each program's body is one action, `Select...`; `WritePacket` is the write and the
test that leaves the loop. A record may end with its link-layer header: to
`get_pkt_info` that is no error, but the getters of transport objects raise on it
(`Empty`); one that `get_pkt_info` cannot make out ends the program in the read.
`Refuses` says of which records a program's body raises. `file` is what of `written` is on disk: libtrace may
hold records back until the trace is destroyed. Any call of libtrace may fail,
which raises and ends the program where it is (`died`). The trace is what
libtrace delivers after its filter.

`RecordCopy` is the abstract specification of all of them: a set of wanted
records, a subset of these to be changed, and one step that copies the first
record still missing. It models no code and has no entries in the map.

CopyTrace's `Read` is TraceRead's `ReadPacket` on a file, which never waits, and
the Packet it yields is PacketViews' record 1, always the same.

### LdnsRead - DNS messages

`test-pldns.py`, `test-pldns-tcp.py` and any other program over a trace of
payloads that are cut before, in and behind the length and the message. `recs`
are the `pi` records of payload objects, whose `dp` and `rem` a call of `ldns()`
moves for TCP; `objs` the `_ldns_object`s, with the octets libldns was given and
what it found. `Parses` leaves open what libldns makes of octets that are not a
message's. `ip6` is the version of a packet: both test programs ask each IP object for
`frag_offset`, which only those of IPv4 have, and end there. Traces are those of port 53 and the transport headers those of
PacketViews' `UdpPayload` and `TcpPayload`.

## 3. Runs

| Run | Asks | Bounds |
|---|---|---|
| `kinds` | Are records well typed, tags right, payloads after their header, for every chain of calls on one packet? | 8 Shapes (TCP, UDP, ICMP, IPv6, fragment, truncated, ARP, undecodable), 4 misread headers, 1 read, 2 records |
| `reads` | What do objects kept across a second read see? | 3 Shapes differing in version, protocol and decodability, 2 misread headers, 2 reads, 2 records |
| `traceread` | Does the flag mirror libtrace, and when does a read end? | half-second ticks; timeouts 0, 1, 2 s; waits of 0.5, 1.5, 3 s; 2 packets |
| `flows` | Does a flow keep one entry, one count for each direction and one home key, while `network()` writes to shared addresses? | 2 octets of 2 bits; both directions of a flow, an IPv6 flow, a self-reverse key; 4 packets; masks in either octet |
| `fields` | What does each getter read, and what does each assignment change? | 22 objects: whole headers, cut ones, re-tagged and made ones; 64 octets; 2 assignments of 2 digits |
| `walks` | Do the loops end, stay inside, and agree? | every word of options over five octets, two words over three; every chunk list of up to 8 octets over three |
| `prefixes` | Do order, equality, hash, containment and `network()` agree, whatever was changed? | 7 arguments around the octet boundaries, of Python, of a packet or of another prefix; 5 lengths, 3 prefixes, 5 calls |
| `seqs` | Is the order of two moving numbers found? | 5-bit numbers; steps of 1, 7, 15, 16, 31 |
| `copy` | What do the programs copy, and do they end with it in the file? | every trace of up to 4 records of the kinds a program tells apart; every script of up to 4 calls |
| `dns` | What is read of which payload? | every trace of up to 2 of 12 packets; 2 payload objects and 3 calls of `ldns()` |
| `checksum` `flowarg` | two statements of the documentation the object layer does not keep | as `kinds` |

Why the bounds are enough. Every call of the object layer reads one record and
writes that record or one other, so two records show every pairwise effect, and
`Make` reuses the second one without end. The shapes hold one packet for each branch
of the code. Two reads make one reuse of the buffer; a third brings nothing a
second does not, as a stale pointer may already read as anything. The misread headers are each way a
guess can go: none, one that claims the right place, one that does not, one that is too
short. In TraceRead
two ticks a second distinguish "a second has passed" from "the clock has moved to
the next second", and the waits lie below, between and above the timeouts; `Cap`
stops counters where the comparisons no longer change. In FlowTable two octets
are the least with one to clear and one to keep, and four packets let a flow be
opened, answered and counted again beside another. In FieldAccess one assignment can
disturb what a second one checks (the version nibble), and nothing more. The
options of one word hold every kind followed by every length below, at and above
the end, and eight octets of chunks hold two chunk headers, so a chunk, its
successor and a rest. Three prefixes are what transitivity needs; five calls make
three, change one and count another, or make two that share octets, count both and
change one. Five bits wrap many times in the steps
given. Four records make a limit of two or three reached, passed and
followed by others, and four calls contain every order of start, copy and close
with one of them twice. The proofs use none of these values (PacketViews' and the
others' sets of packets, numbers and lengths are arbitrary there).

Deadlock is checked in `seqs` only: the other programs stop, at their end, after a
crash or a use of a destroyed handle, or at a bound.

### What the passing properties say

* `PktKindHasPacket` - `check_pkt` protects every cast of `pi.data`, however a
  record was derived.
* `RootDescribesCurrent` - the Packet's own record never carries a pointer, an
  ethertype or a protocol of an earlier packet, also after a failed read.
* `OnlyTransportMixesPackets` - old objects are stale as a whole; only
  `.transport`, which asks libtrace, combines two packets.
* `TagMatchesProtocol`, `TcpPayloadAfterHeader` - although `proto`, `dp` and
  the tag are rewritten by different calls, they agree on the current packet, and
  what `tcp.payload` gives starts behind its TCP header. Both except records whose
  version is not the packet's, which only `ip()` and `ip6()` make.
* `RetagIsForGood` - taking `ip` or `layer3` of a transport object ends its life
  as one; no later call revives it.
* `StartedMirrorsHandle`, `TimeoutNotEarly`, `PacketEndsRead`, `QuietReadEnds` -
  the flag is libtrace's state until close; a timeout comes at most a second
  early; a packet or the end of the trace ends a read whatever the timeout; and
  on a descriptor with no other traffic so does the timeout.

* `OneEntryPerFlow`, `ImplementsCounts` - the directions of a flow never get an
  entry each, and each direction's count is right, whatever `network()` did to the
  stored flows; `OneHomeEntry` - a flow with one end at home has one home key as
  long as the bits a home prefix compares are intact.

* `GettersStayNear` - however a record was re-tagged and whatever was assigned,
  getters read at most one octet past the captured header (`has_df`, `has_mf` and
  the version itself do). `AssignOnlyOwn`, `SetThenGet` - in both versions of the
  header an assignment is read back, and leaves every other property readable and
  as it was. `AssignStaysNear` - which assignments can write where nothing was
  captured, and how far.
* `OptionsFit`, `OptionAgrees` - `option_numbers` never needs more room than it
  has, and `option(n)` gives a value just for the numbers listed, on any octets.
  `ChunksCover`, `CallsEnd` - chunks tile what was captured, and every loop ends
  unless a chunk has the length zero.
* `CountedOnce` - a dictionary of prefixes counts right although `==` ignores
  missing lengths and the hash does not, unless a key was changed, be it through
  another prefix or a packet that has its octets. `OrderTotal`,
  `PrefixesNest`, `FirstBitIsFirst` - `<` is an order, containment nests, and the
  C function finds the bit that `has_bit_set` shows to differ.
  `NetworkContains` - `network(n)` contains what it was made from and all prefixes
  with the same octets, also after the call has damaged those; prefixes with other
  octets are as they were.
* `OrderAgrees` - comparisons are right up to half the range, wrapped or not, where
  the subtraction does not overflow.
* `FlagGuards` - for any order of the calls, which errors and which uses of a
  destroyed handle the one flag of an output trace lets through, and which
  exceptions are a record's and not the flag's.
  `ImplementsCopy` - a program copies the wanted records only, wherever an
  exception ends it. `CopyCompletes` - it ends, and with start, copy and close in
  this order ends with all of them in the file, unless libtrace fails it or it comes to
  a record it refuses.
* `ReadsMessage` - a payload gives its message on the first `ldns()`, however often
  the packet's payload was asked for, and no call reads beyond the captured end
  unless the octets to skip are missing. `CheckedSurvives` - asking `is_ok` first
  is enough never to follow a NULL pointer, and the test programs show just the
  messages they are after, up to one that is not whole or to any IPv6 packet.

### What the code does not do

Two runs show the code against a statement of its documentation:

* `checksum`: a transport checksum is read from, or written into, the layer-3
  header when `proto` was known already (`build-cplt.py:237`, `doc/Internet.html:120`).
* `flowarg`: `make_fkey` fails on any object whose protocol is known
  (`natkit.py:195`, `doc/natkit.html:173`).

Others are part of the models' actions, and are told here because a reader of the
documentation will not expect them:

* `layer3.data` is the layer-2 header once `layer2` was looked at, as both move
  the `dp` of one record (`plt.py:396`, `doc/Packet.html:199`).
* `ip()` and `ip6()` on an object of the other version (`plt.py:842`, `plt.py:885`) keep
  its layer-3 pointer under the new ethertype; `tcp` and the others then take octets
  of the wrong places for their header.
* `icmp.payload` shows the addresses of the outer packet (`plt.py:131`,
  `doc/ICMP.html:57`).
* Each turn of the event loop starts the timeout again, so short waits can put it
  off for ever (`build-cplt.py:376`, `doc/Trace.html:73`); `QuietReadEnds` states
  what is left. A packet that ends the select while the clock reaches the timeout
  is reported as "no packets" (`build-cplt.py:380`, `doc/Trace.html:75`).
* `network()` clears octets of the address it is called on (`build-cipp.py:87`), so
  asking for the network of a stored flow's `src_prefix` changes the flow
  (`doc/natkit.html:266`). Two prefixes made of one cdata (`ipp.py:35`), as by asking
  for `src_prefix` twice, share it: one can change the other, also as a key of a
  dictionary, and so can the packet.
* `close` leaves `started` set and destroys only a trace that is started
  (`plt.py:324`): a later call uses a destroyed handle, and a paused trace is kept.
* With both ends at home, or neither, the directions of a flow have different home
  keys (`natkit.py:145`, `doc/natkit.html:106`).
* `seq_lt` and its kin order 0x7fffffff and 0x80000000 wrongly in a build that
  folds the signed subtraction (`build-cnatkit.py:48`).
* A prefix made without a length keeps None; `network(32)` writes past an IPv4
  address (`build-cipp.py:85`); `__nq__` (`ipp.py:99`) is not the name Python looks
  for, so `!=` is not the opposite of `==` in Python 2.
* `set_dst_prefix` and the transport checksum setters write past a header that is
  cut short (`plt.py:718`, `plt.py:998`), and so does `set_l3_cksm` for a header that
  claims fewer than three words (`build-cplt.py:222`). A `traffic_class` of more than
  eight bits changes the version of an IPv6 header (`plt.py:653`).
* `chunk.bytes` goes on to the end of the packet (`plt.py:1484`,
  `doc/SCTP.html:129`); a chunk of length zero is listed for ever (`plt.py:1436`).
* A second `ldns()` on one TCP payload starts two octets late, and on a payload of
  one octet reads beyond it (`pldns.py:141`). `_ldns_object` has no `errorstr`, which
  `doc/pldns.html:59` and `test-pldns.py:33` call. `test-pldns.py:21` and
  `test-pldns-tcp.py:20` end with an AttributeError at any IPv6 packet. Without a question the lists of
  records are None.
* `arp-anon.py` names `ot.close_output` without calling it (line 59), so its
  last records are written only if libtrace does so by itself. `copy-icmp.py` ends
  at an ICMP type of 16 or more. It, `copy-icmp6.py` and `try-output.py` end with a
  PltError at a record whose layer 3 is empty (`plt.py:390`), the file not closed.
  `try-internet.py` ends at the first IPv6 packet,
  whose header has no checksum to set. `apply_filter` sets `used` on the packet and
  not on the filter (`plt.py:383`).

### Fairness

TraceRead's `FairSpec` assumes weak fairness of the
C code's own steps, which nothing blocks, and strong fairness of `Tick`: time
goes on while the program waits, also when the select is interrupted again and
again. Strong, because an interruption takes the program out of the select and
disables `Tick` for the moment. Nothing is assumed about packets, the end of the
trace or what the program calls.

PayloadWalks assumes weak fairness of a loop's next turn and CopyTrace of the
program's next step: both are sequential code in which no call waits, so a step
that can be taken is taken. Neither assumes that libtrace succeeds. LdnsRead,
IpPrefix, SeqArith, FieldAccess, PacketViews and FlowTable state no fairness: their
programs may stop anywhere.

## 4. Proofs

**PacketViewsProofs**, for any set of Shapes, any misread headers and any bounds.
`IInv` is `TypeOK` with, for each record, four parts. `KindOK`: what kind PKT
guarantees, and that no pointer is from the future. `MemoryOK`: all pointers of a
record are in one packet unless a `transport` object is on it. `TagOK`: a record
with a transport tag belongs to an object of that class, and an object alone on its
record still has its tag. `ProtoOK`: while a record is `Current` (its packet is in the
buffer and its ethertype is the packet's), a tagged one that has layer-3 bytes is at
its packet's transport header with its protocol, and one tagged TCP is there or
nowhere; a class on it is the packet's protocol, also after another view re-tagged it,
which is what `get_proto` needs to leave a tag right. A fifth part, `RootOK`, is
stronger for record 1. `HeadersShape` is the lemma that ties `Headers` to the packet in
the buffer: nothing is assumed of a header found anywhere else, and the proofs show
that it stays out of `Current` records. There is one lemma for each kind of write
(`Share`, `Make`, a read, a changed `proto`), and the actions reduce to them.
`RetagIsFinal` and `TcpPayloadIsRight` are action properties from the same invariant.

**TraceReadProofs**, for any length of a second, any timeouts and any waits.
`ClockOK` says that when a turn of the loop begins, the clock is less than a
second past `time_now`; hence in the select `since < slept + Second`, and an exit
with `since \div Second >= timeout` has slept more than `(timeout - 1) * Second`.

**NatkitProofs**, for addresses of any width and any packets, prefixes and
masks. `TypeOK` and `OneEntryPerFlow` are inductive together; `Rev` being its own
inverse on `Keys` is the lemma the insertion case rests on. `Implements` is the
refinement: `LookupCounts` shows that a packet adds one to the count of its own
direction and to no other, which needs `OneEntryPerFlow`, and every call of
`network()` is a stutter. For home keys the invariant adds that `network()` only
clears bits: a bit once lost never comes back, so "the compared bits are intact"
also speaks of the past. `SubnetsKeepHome` gives a condition on the caller that
keeps them intact.

NatkitProofs also has SeqArith's theorems, for any even range and any steps.
`SeqTypeOK` says that the numbers stay congruent to the true ones; with `SignOK`,
that an answer is about the numbers as they are, the theorem is arithmetic.
`OverflowsGoEitherWay` shows that `OrderAgrees` excepts no more than it has to:
wherever the subtraction overflows, each comparison has both answers.

**FieldAccessProofs**, for any objects, memory of any size and any values. Lemmas
about the table come first: where the rows of each header lie, and that those of
different names lie apart. `Wrote` then says of each assignment which nibbles it
changed and what it had asked for; the three action properties follow from it and
from the row lemmas. `TypeOK` is the invariant they need: that memory keeps holding
nibbles makes the version nibble comparable, and that the object keeps its lengths
lets a captured octet stay one.

**PayloadWalksProofs**, for any octets and lengths. `FitInv`: what was listed ends at
or before the cursor, and took an octet for each entry at least. `CoverInv`: a
chunk cut short leaves nothing behind it. For the agreement of the two TCP loops,
`Path` is the set of octets a walk comes by, the least that holds 0 and is closed
under "the next option"; `AgreeInv` says that each loop's cursor is on it and that
the loop has dealt with all of it before the cursor, so that finished answers
speak of the whole path. Since both speak of one path, they agree.

**IpPrefixProofs**, for any strings, addresses and lengths. The invariant is `TypeOK`
with `CountedOnce` and `Filed`: a key that was not changed is filed under the hash
it still has, without which a new addition could miss its entry. A write to octets
changes several objects, so `Filed` rests on `Changes` marking all their `Sharers`, and
`Shared` (objects with the same octets have one version and address) on `Written`
changing them all. Order, nesting and the first different bit are lemmas on values
(`CFbd` is the least element of a set of bit positions), and `NetworkContains` an
action property: what it says of the sharers needs `Shared`.

**LdnsReadProofs**, for traces of any length, packets cut anywhere and any number of
objects and calls. `Core` says of the `pi` records that `at` is what their calls
have skipped and `at + rem` the captured end (`RecsOK`), and of the `_ldns_object`s
the same of where they were read (`ObjsOK`); that alone gives `ReadsMessage`, but
not `CheckedSurvives`. For a test program `LInv` adds what it has in hand at each
place (`InHand`: one payload, not yet read; then the object just made of it), how it
can have died (`DiedOK`), and `ShownOK`: it has shown exactly the wanted packets up
to the one it has dealt with. Without the last one a packet could be skipped by one
step and the omission be noticed only at the end of the trace.

**CopyTraceProofs**, for any traces and scripts. `FlagOK` ties the flag to the history
of the script: that is what `FlagGuards` is about. The refinement needs three more
parts in `CInv`. `LoopOK`: the loop runs in the only copying call of the script
and has not passed its limit. `CountOK`: each type was counted as often as it came
(hence a record is among the first so many of its type just when the program
thinks so). `CopiedOK`: the wanted records before the current one have been
written and no others, and a record about to be written was changed just if it
should be. A write is then the abstract `Copy`, everything else a stutter. `DInv`
adds `CopyDone`, with the loop behind it a program has written all it wants, and
`FileDone`, once closed that is in the file.

**What the liveness properties rest on.** Liveness itself is beyond the prover,
but what single steps must do for it, besides being taken, is proved for all values
of the constants:

* `CopyCompletes`: `ProgramsRunOut` (each step decreases `Remaining`: three for a
  record not yet read, two for a call not yet made, and the stage in the loop) and
  `OrderlyEndsComplete` (if an orderly program ends, what it wants is in the file).
* `CallsEnd`: `WalksRunOut` (each turn leaves less of `ToWalk`, whatever the octets
  say, but for a chunk of length zero) and `ZeroChunkStays` (the exception is real).
* `PacketEndsRead`: `SelectsRunOut` (a tick brings a select nearer to its limit, and
  `Cap`, the bound of the counters, is not in its way). That the turns of the loop
  after it come to an end too is only model-checked.
* `QuietReadEnds`: the same and `QuietSelectTimesOut` (the first select to return
  ends the read: the loop's exit test by whole seconds sends it into no other turn).

Assumptions are the named ones on constants (`PacketViewsAssumption`,
`TraceReadAssumption`, `FlowKeysAssumption`, `FlowTableAssumption`,
`FieldAccessAssumption`, `PayloadWalksAssumption`, `IpPrefixAssumption`,
`SeqArithAssumption`, `CopyTraceAssumption`, `LdnsReadAssumption`); TLC evaluates
them in its runs.

Every invariant, action property and refinement that a passing run checks is proved.
Model-checked only: the step from the facts above to liveness (`PacketEndsRead`, `QuietReadEnds`, `CallsEnd`,
`CopyCompletes`), which needs fairness and `ENABLED`.

## 5. Not modelled

* Formatting and printing, and the parsing of an address string: `from_s` is
  modelled by what a string says.
* libtrace, libldns and cffi themselves. Their functions are what the code lets
  them be: any outcome it has a branch for. When Python frees memory that a cffi
  pointer still shows to is not modelled.
* The one's complement sums of the checksums, whose values change no state; their
  control and their writes are in PacketViews and FieldAccess.
* `conf_filter`, `conf_snaplen`, `conf_promisc` and what filters let through, which
  are handed to libtrace and never looked at again.
* A Packet's `time`, `wire_len`, `linktype` and the like, which ask libtrace and
  keep nothing.
* The demo programs that call the library once per packet and print, the harness
  that compares their output with a file, and the build scripts.

`PROJECT.json` gives the reason for each component.

## 6. What could come next

1. A composition of TraceRead and PacketViews, so that a timeout in the middle of a
   read shows what it leaves in the record.
2. The checksums as sums over a few octets, against the definition of RFC 1071,
   with odd lengths and the pseudo header.
