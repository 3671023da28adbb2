------------------------------ MODULE CopyTrace ------------------------------
(***************************************************************************)
(* Programs that read a trace and write some of its records to an           *)
(* _output_trace: the four in doc/examples, two of lib/plt, and any other   *)
(* order of the calls on it.  The trace is what libtrace hands over, after  *)
(* its filter.                                                              *)
(***************************************************************************)
EXTENDS Naturals, Sequences, FiniteSets

CONSTANT Cases    \* traces, each with a program to run on it

\* Records by what the programs ask of them: an ICMP or ICMPv6 message and its
\* type, any other IPv4 or IPv6 packet with a whole header, one whose header is
\* cut, an ARP request or reply between IPv4 addresses, one that is cut short or
\* has other addresses, any other layer 3; of each an ethertype with nothing
\* behind it, which is no error to get_pkt_info; and what it cannot make out.
Empty == {"emptyip", "emptyarp", "empty"}
Record == [kind : {"icmp", "icmp6"}, type : 0 .. 255]
            \cup [kind : {"ip4", "ip6", "cutip", "arp", "badarp", "other", "none"}
                            \cup Empty,
                  type : {0}]
Ip4 == {"icmp", "ip4"}
Ip6 == {"icmp6", "ip6"}
Ip == Ip4 \cup Ip6 \cup {"cutip", "emptyip"}

Calls == {"start_output", "conf", "copy", "close_output"}
Ways == {"first-n", "icmp", "icmp6", "arp-anon", "ip", "internet"}
ArrayTypes == 0 .. 15

\* A program: how it copies, how many records (of a type), and the calls it
\* makes, of which one is the copying.
ASSUME CopyTraceAssumption ==
    \A c \in Cases :
        /\ c.trace \in Seq(Record)
        /\ c.way \in Ways /\ c.limit \in Nat \ {0}
        /\ c.script \in Seq(Calls)
        /\ \A i, j \in DOMAIN c.script :
             c.script[i] = "copy" /\ c.script[j] = "copy" => i = j

VARIABLES
    case,      \* the trace and the program, fixed once chosen
    pc, line,  \* where the program is; the call it makes
    n,         \* the number of the record it has, of which it counts ..
    counts,    \* .. how many there were of each type
    edited,    \* whether it has changed that record
    started,   \* the flag of the _output_trace
    handle,    \* what libtrace did to its lt_out
    written,   \* what was given to libtrace
    file,      \* what of it is in the file
    died       \* the exception that ended the program, or a freed handle

vars == <<case, pc, line, n, counts, edited, started, handle, written, file,
          died>>

out == <<started, handle, written, file>>
loop == <<n, counts, edited>>

Rec == case.trace[n]

-----------------------------------------------------------------------------

Dies(why) ==
    /\ died' = why /\ pc' = "end"
    /\ UNCHANGED <<case, line, n, counts, edited, started, handle, written,
                   file>>

Goes(to) == pc' = to /\ UNCHANGED <<case, line, died>>
Calling(c) == pc = "script" /\ line \in DOMAIN case.script
                /\ case.script[line] = c
NextCall == pc' = "script" /\ line' = line + 1 /\ UNCHANGED <<case, died>>

\* The script is done; the process ends, and with it what was not in the file.
Exit ==
    /\ pc = "script" /\ line \notin DOMAIN case.script
    /\ Goes("end") /\ UNCHANGED <<loop, out>>

StartOutput ==
    /\ Calling("start_output")
    /\ \/ started /\ Dies("PltError")
       \/ ~started /\ Dies("LibtraceError")
       \/ /\ ~started
          /\ started' = TRUE /\ handle' = "started"
          /\ NextCall /\ UNCHANGED <<loop, written, file>>

\* Mutant: a trace that was not started is destroyed as well.
CloseOutputAlways ==
    /\ Calling("close_output")
    /\ IF handle = "freed" THEN Dies("freed")
       ELSE /\ handle' = "freed" /\ file' = written
            /\ NextCall /\ UNCHANGED <<loop, started, written>>

\* libtrace finishes the file.  The flag stays, and a trace that was not
\* started is left as it is.
CloseOutput ==
    /\ Calling("close_output")
    /\ \/ started /\ handle = "freed" /\ Dies("freed")
       \/ /\ started /\ handle # "freed"
          /\ handle' = "freed" /\ file' = written
          /\ NextCall /\ UNCHANGED <<loop, started, written>>
       \/ ~started /\ NextCall /\ UNCHANGED <<loop, out>>

\* conf_file_flags, conf_compress_type, conf_compress_level
Configure ==
    /\ Calling("conf")
    /\ \/ handle = "freed" /\ Dies("freed")
       \/ handle # "freed" /\ Dies("PltError")
       \/ handle # "freed" /\ NextCall /\ UNCHANGED <<loop, out>>

-----------------------------------------------------------------------------
(* for pkt in t: *)

Copy ==
    /\ Calling("copy")
    /\ Goes("read") /\ UNCHANGED <<loop, out>>

\* Mutant: a read that gives nothing is taken for a record.
ReadNoEnd ==
    /\ pc = "read"
    /\ \/ n > Len(case.trace) /\ NextCall /\ UNCHANGED <<loop, out>>
       \/ Dies("LibtraceError")
       \/ /\ n <= Len(case.trace) /\ n' = n + 1 /\ edited' = FALSE
          /\ Goes("select") /\ UNCHANGED <<counts, out>>

\* The next record comes in the one Packet of the trace; one that get_pkt_info
\* cannot make out is an error like those of libtrace.
Read ==
    /\ pc = "read"
    /\ \/ n = Len(case.trace) /\ NextCall /\ UNCHANGED <<loop, out>>
       \/ Dies("LibtraceError")
       \/ /\ n < Len(case.trace) /\ case.trace[n + 1].kind # "none"
          /\ n' = n + 1 /\ edited' = FALSE
          /\ Goes("select") /\ UNCHANGED <<counts, out>>

CountOf(t) == IF t \in DOMAIN counts THEN counts[t] ELSE 0
Counted(t) ==
    [u \in DOMAIN counts \cup {t} |-> CountOf(u) + IF u = t THEN 1 ELSE 0]

\* Mutant: the loop ends before the last record is written.
SelectFirstEarly ==
    /\ pc = "select" /\ case.way = "first-n"
    /\ IF n = case.limit THEN NextCall ELSE Goes("write")
    /\ UNCHANGED <<loop, out>>

\* copy-first-n: every record.
SelectFirst ==
    /\ pc = "select" /\ case.way = "first-n"
    /\ Goes("write") /\ UNCHANGED <<loop, out>>

\* Mutant: the type is counted when its record has been written.
SelectIcmpLate ==
    /\ pc = "select" /\ case.way \in {"icmp", "icmp6"}
    /\ \/ /\ Rec.kind # case.way
          /\ Goes("read") /\ UNCHANGED <<loop, out>>
       \/ /\ Rec.kind = case.way
          /\ counts' = Counted(Rec.type)
          /\ Goes(IF CountOf(Rec.type) <= case.limit THEN "write" ELSE "read")
          /\ UNCHANGED <<n, edited, out>>

\* copy-icmp counts in an array of sixteen types, copy-icmp6 in a dictionary.
\* The getters of the messages want a layer 3, of whatever ethertype.
SelectIcmp ==
    /\ pc = "select" /\ case.way \in {"icmp", "icmp6"}
    /\ \/ Rec.kind \in Empty /\ Dies("PltError")
       \/ /\ Rec.kind \notin Empty \cup {case.way}
          /\ Goes("read") /\ UNCHANGED <<loop, out>>
       \/ /\ Rec.kind = case.way /\ case.way = "icmp"
          /\ Rec.type \notin ArrayTypes /\ Dies("IndexError")
       \/ /\ Rec.kind = case.way
          /\ case.way = "icmp" => Rec.type \in ArrayTypes
          /\ counts' = Counted(Rec.type)
          /\ Goes(IF counts'[Rec.type] <= case.limit THEN "write" ELSE "read")
          /\ UNCHANGED <<n, edited, out>>

\* arp-anon changes the addresses where they are.  An octet that is not there
\* cannot be indexed, a slice of another length not be assigned.
SelectArp ==
    /\ pc = "select" /\ case.way = "arp-anon"
    /\ \/ Rec.kind \in {"badarp", "emptyarp"} /\ Dies("IndexError")
       \/ Rec.kind = "badarp" /\ Dies("ValueError")
       \/ /\ Rec.kind \notin {"badarp", "emptyarp"}
          /\ edited' = (Rec.kind = "arp")
          /\ Goes("write") /\ UNCHANGED <<n, counts, out>>

\* try-output: every IP packet, cut or not, with a look at its TCP header, for
\* which it must have a layer 3, and at what a filter says of it.
SelectIp ==
    /\ pc = "select" /\ case.way = "ip"
    /\ \/ Rec.kind \notin Ip /\ Goes("read") /\ UNCHANGED <<loop, out>>
       \/ Rec.kind = "emptyip" /\ Dies("PltError")
       \/ Rec.kind \in Ip \ {"emptyip"} /\ Goes("write") /\ UNCHANGED <<loop, out>>

\* try-internet changes the addresses of IP packets where they are, and then
\* their checksums: IPv6 has none in its header, which is an error, as it is
\* when a header is cut; without the protocol of an IPv6 packet the line before
\* cannot be printed, and a transport checksum cannot always be made.  It stops
\* at a record too many.
SelectInternet ==
    /\ pc = "select" /\ case.way = "internet"
    /\ \/ n > case.limit /\ NextCall /\ UNCHANGED <<loop, out>>
       \/ /\ n <= case.limit /\ Rec.kind \notin Ip
          /\ Goes("read") /\ UNCHANGED <<loop, out>>
       \/ n <= case.limit /\ Rec.kind \in Ip \ Ip4 /\ Dies("PltError")
       \/ n <= case.limit /\ Rec.kind \in Ip6 \cup {"cutip"} /\ Dies("TypeError")
       \/ n <= case.limit /\ Rec.kind \in Ip4 /\ Dies("ValueError")
       \/ /\ n <= case.limit /\ Rec.kind \in Ip4
          /\ edited' = TRUE
          /\ Goes("write") /\ UNCHANGED <<n, counts, out>>

\* The loop ends by itself after so many records.
LoopEnds == case.way \in {"first-n", "arp-anon"} /\ n = case.limit

\* libtrace may keep the record in memory until the file is finished.
WritePacket ==
    /\ pc = "write"
    /\ \/ ~started /\ Dies("PltError")
       \/ started /\ handle = "freed" /\ Dies("freed")
       \/ started /\ handle # "freed" /\ Dies("LibtraceError")
       \/ /\ started /\ handle # "freed"
          /\ written' = Append(written, [rec |-> n, changed |-> edited])
          /\ file' \in {file, written'}
          /\ \/ LoopEnds /\ NextCall
             \/ ~LoopEnds /\ Goes("read")
          /\ UNCHANGED <<loop, started, handle>>

-----------------------------------------------------------------------------

Init ==
    /\ case \in Cases
    /\ pc = "script" /\ line = 1
    /\ n = 0 /\ counts = [t \in {} |-> 0] /\ edited = FALSE
    /\ started = FALSE /\ handle = "created"
    /\ written = <<>> /\ file = <<>> /\ died = "no"

Select ==
    SelectFirst \/ SelectIcmp \/ SelectArp \/ SelectIp \/ SelectInternet

Next ==
    \/ StartOutput \/ CloseOutput \/ Configure \/ Exit
    \/ Copy \/ Read \/ Select \/ WritePacket

\* The program runs on: no call waits for anything.
Spec == Init /\ [][Next]_vars /\ WF_vars(Next)

-----------------------------------------------------------------------------
(* Properties *)

Copies == Seq([rec : Nat, changed : BOOLEAN])

LoopType ==
    /\ n \in 0 .. Len(case.trace)
    /\ DOMAIN counts \subseteq 0 .. 255 /\ counts \in [DOMAIN counts -> Nat]
    /\ edited \in BOOLEAN

OutType ==
    /\ started \in BOOLEAN /\ handle \in {"created", "started", "freed"}
    /\ written \in Copies /\ file \in Copies
    /\ Len(file) <= Len(written)
    /\ \A i \in 1 .. Len(file) : file[i] = written[i]

\* The loop stays inside the trace; the file is a beginning of what was written.
TypeOK ==
    /\ case \in Cases
    /\ pc \in {"script", "read", "select", "write", "end"}
    /\ line \in 1 .. Len(case.script) + 1
    /\ pc \in {"select", "write"} => n > 0
    /\ LoopType /\ OutType
    /\ died \in {"no", "PltError", "LibtraceError", "IndexError",
                 "TypeError", "ValueError", "freed"}

\* Whether a call comes among the first k of the script, after the first start.
Starts(k) == \E i \in DOMAIN case.script : i < k /\ case.script[i] = "start_output"
Closes(k) ==
    \E i, j \in DOMAIN case.script :
        /\ i < j /\ j < k
        /\ case.script[i] = "start_output" /\ case.script[j] = "close_output"

\* The records that a program cannot look at without an exception, or may not.
Refuses(r) ==
    CASE case.way \in {"icmp", "icmp6"} ->
           \/ r.kind \in Empty
           \/ case.way = "icmp" /\ r.kind = "icmp" /\ r.type \notin ArrayTypes
      [] case.way = "arp-anon" -> r.kind \in {"badarp", "emptyarp"}
      [] case.way = "ip" -> r.kind = "emptyip"
      [] case.way = "internet" -> r.kind \in Ip
      [] OTHER -> FALSE

\* Whatever the order of the calls, the flag lets the program reach libtrace
\* with a handle that was not destroyed, unless it was started and closed
\* before; and it complains only of a second start and of a write before any.
\* All other exceptions come from a configuration, from libtrace, or from the
\* record in hand, of which a layer 3 that is empty is one.
FlagGuards ==
    /\ died = "freed" => Closes(line)
    /\ died = "PltError" =>
         CASE case.script[line] = "start_output" -> Starts(line)
           [] case.script[line] = "copy" -> ~Starts(line) \/ Refuses(Rec)
           [] OTHER -> case.script[line] = "conf"
    /\ died \in {"IndexError", "TypeError", "ValueError"} =>
         case.script[line] = "copy" /\ Refuses(Rec)

\* The records a program is to copy: the first so many, the first so many of
\* each type it can count, those it can change, every IP packet that is not
\* empty.
SameBefore(i) == {j \in 1 .. i : case.trace[j] = case.trace[i]}

Wanted ==
    {i \in 1 .. Len(case.trace) :
       CASE case.way = "first-n" -> i <= case.limit
         [] case.way = "arp-anon" ->
              i <= case.limit /\ case.trace[i].kind \notin {"badarp", "emptyarp"}
         [] case.way = "ip" -> case.trace[i].kind \in Ip \ {"emptyip"}
         [] case.way = "internet" ->
              i <= case.limit /\ case.trace[i].kind \in Ip4
         [] OTHER -> /\ case.trace[i].kind = case.way
                     /\ case.way = "icmp" => case.trace[i].type \in ArrayTypes
                     /\ Cardinality(SameBefore(i)) <= case.limit}

Anonymous ==
    {i \in Wanted : \/ case.way = "arp-anon" /\ case.trace[i].kind = "arp"
                    \/ case.way = "internet"}

\* Every program writes the wanted records only, each once and in order, and
\* those to be changed not as they were, wherever an exception ends it.
Copying == INSTANCE RecordCopy
             WITH wanted <- Wanted, changed <- Anonymous, copied <- written

ImplementsCopy == Copying!Spec

\* The calls of all programs but arp-anon, of which try-output configures first.
Orderly == case.script \in {<<"start_output", "copy", "close_output">>,
                            <<"conf", "conf", "start_output", "copy",
                              "close_output">>}

\* Every program ends, and one that starts, copies and closes in this order
\* ends with all the wanted records in the file unless libtrace fails it, in a
\* configuration or elsewhere, or it comes to a record that it refuses.
Complete ==
    \/ died = "no" /\ {file[i].rec : i \in DOMAIN file} = Wanted
    \/ died = "LibtraceError"
    \/ died = "PltError" /\ case.script[line] = "conf"
    \/ /\ died \notin {"no", "freed"}
       /\ case.script[line] = "copy" /\ Refuses(Rec)

CopyCompletes == <>(pc = "end" /\ (Orderly => Complete))

=============================================================================
