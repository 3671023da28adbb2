----------------------------- MODULE MCCopyTrace -----------------------------
(* The programs of doc/examples and lib/plt on every trace of up to four     *)
(* records that differ for them, two of a type being wanted; and every       *)
(* script of up to four calls, with one copying, on a trace of two records.  *)
EXTENDS CopyTrace

R(k, t) == [kind |-> k, type |-> t]
TracesOf(records) == UNION {[1 .. k -> records] : k \in 0 .. 4}

Closing == <<"start_output", "copy", "close_output">>
Configuring == <<"conf", "conf">> \o Closing
NotClosing == <<"start_output", "copy">>

Case(way, records, limit, scripts) ==
    [trace : TracesOf(records), way : {way}, limit : {limit}, script : scripts]

Sources ==
    Case("first-n", {R("other", 0), R("empty", 0), R("none", 0)}, 3, {Closing})
      \cup Case("icmp",
                {R("icmp", 0), R("icmp", 8), R("icmp", 16), R("other", 0),
                 R("emptyip", 0)},
                2, {Closing})
      \cup Case("icmp6",
                {R("icmp6", 128), R("icmp6", 135), R("icmp", 0), R("empty", 0)}, 2,
                {Closing})
      \cup Case("arp-anon",
                {R("arp", 0), R("badarp", 0), R("emptyarp", 0), R("emptyip", 0)}, 3,
                {NotClosing})
      \cup Case("ip",
                {R("icmp", 8), R("cutip", 0), R("emptyip", 0), R("emptyarp", 0)},
                1, {Configuring})
      \cup Case("internet",
                {R("ip4", 0), R("ip6", 0), R("cutip", 0), R("emptyip", 0),
                 R("other", 0)},
                2, {Closing})

Scripts ==
    {s \in UNION {[1 .. k -> Calls] : k \in 0 .. 4} :
       Cardinality({i \in DOMAIN s : s[i] = "copy"}) <= 1}

AnyOrder ==
    [trace : {<<R("other", 0), R("other", 0)>>}, way : {"first-n"}, limit : {2},
     script : Scripts]

AllCases == Sources \cup AnyOrder

=============================================================================
