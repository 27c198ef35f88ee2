------------------------------ MODULE HttperfUri ------------------------------
(***************************************************************************)
(* The generators of URIs (attacker/httperf/src/gen/uri_fixed.c,           *)
(* uri_wlist.c, uri_wlog.c, uri_wset.c).  Each is one handler of           *)
(* EV_CALL_NEW that gives the new call its URI:                            *)
(*   fixed   the same for every call;                                      *)
(*   wlist   from a list, each local address at a place of its own;        *)
(*   wlog    from a list that all calls share; the test stops at its end   *)
(*           unless it is to be repeated;                                  *)
(*   wset    one of num_files files, a new one at the rate of misses.      *)
(***************************************************************************)
EXTENDS HttperfCore

CONSTANTS
    UriFile,   \* the list's entries in order; "" is an empty one
    One        \* the probability 1, in units of the generator's rates

\* A list has an entry to use; the local addresses are counted; a client has its
\* own number and there are no more clients than files.
ASSUME UriAssumption ==
    /\ UriFile \in Seq(STRING) /\ One \in Nat \ {0}
    /\ \E i \in DOMAIN UriFile : UriFile[i] # ""
    /\ \A p \in Params :
         /\ p.uri \in {"fixed", "wlist", "wlog", "wset"}
         /\ p.do_loop \in BOOLEAN
         /\ p.uri = "wlist" => p.hog
         /\ p.miss_rate \in 0 .. One
         /\ {p.id, p.num_clients, p.num_files} \subseteq Nat
         /\ p.id < p.num_clients /\ p.num_clients <= p.num_files

VARIABLES
    pos,                  \* wlist: how many URIs each local address was given
    fcurrent,             \* wlog: the next entry
    miss_prob, file_num,  \* wset: the misses due; the file in use
    asked                 \* history: the URIs given, with the call's local address

uriVars == << pos, fcurrent, miss_prob, file_num, asked >>

UriInit ==
    /\ pos = [ip \in 0 .. param.addresses - 1 |-> 0]
    /\ fcurrent = 1
    /\ miss_prob \in (IF param.uri = "wset" THEN 0 .. One - 1 ELSE {0})
    /\ file_num = param.id
    /\ asked = << >>

call_set_uri(c, uri) ==
    /\ call' = [call EXCEPT ![c].uri = uri]
    /\ asked' = Append(asked, [ip |-> call[c].myip, uri |-> uri])

set_uri_fixed ==
    /\ Step("set_uri_fixed")
    /\ call_set_uri(Arg(1), "/")
    /\ Run(<< >>)
    /\ UNCHANGED << conn, free, used, timers, sockets, net, result, running, abort,
                    pos, fcurrent, miss_prob, file_num >>

\* init_wlist: the words of the file, and one entry more that was never written,
\* since the end of the file is noticed only after the newline that ends it.
uris == SelectSeq(UriFile, LAMBDA u : u # "") \o << "unwritten" >>
num_uris == Len(uris)

\* Mutant: all local addresses share a place in the list.
set_uri_wlistShared ==
    /\ Step("set_uri_wlist")
    /\ LET c == Arg(1)
           mypos == pos[0]
       IN  /\ pos' = [pos EXCEPT ![0] = @ + 1]
           /\ call_set_uri(c, uris[(mypos % num_uris) + 1])
    /\ Run(<< >>)
    /\ UNCHANGED << conn, free, used, timers, sockets, net, result, running, abort,
                    fcurrent, miss_prob, file_num >>

set_uri_wlist ==
    /\ Step("set_uri_wlist")
    /\ LET c == Arg(1)
           mypos == pos[call[c].myip]
       IN  /\ pos' = [pos EXCEPT ![call[c].myip] = @ + 1]
           /\ call_set_uri(c, uris[(mypos % num_uris) + 1])
    /\ Run(<< >>)
    /\ UNCHANGED << conn, free, used, timers, sockets, net, result, running, abort,
                    fcurrent, miss_prob, file_num >>

\* Empty entries are skipped.  At the end of the file the generator goes on at
\* its start, and asks for the test to stop.
From(i) == {k \in i .. Len(UriFile) : UriFile[k] # ""}

set_uri_wlog ==
    /\ Step("set_uri_wlog")
    /\ LET wraps == From(fcurrent) = {}
           entry == Min(From(IF wraps THEN 1 ELSE fcurrent))
       IN  /\ call_set_uri(Arg(1), UriFile[entry])
           /\ fcurrent' = entry + 1
           /\ Run(IF wraps /\ ~ param.do_loop THEN << << "core_exit" >> >> ELSE << >>)
    /\ UNCHANGED << conn, free, used, timers, sockets, net, result, running, abort,
                    pos, miss_prob, file_num >>

set_uri_wset ==
    /\ Step("set_uri_wset")
    /\ LET due == miss_prob + param.miss_rate
           moved == file_num + param.num_clients
           miss == due >= One
       IN  /\ miss_prob' = IF miss THEN due - One ELSE due
           /\ file_num' = IF ~ miss THEN file_num
                          ELSE IF moved >= param.num_files THEN moved - param.num_files ELSE moved
           /\ call_set_uri(Arg(1), << "file", file_num' >>)
    /\ Run(<< >>)
    /\ UNCHANGED << conn, free, used, timers, sockets, net, result, running, abort,
                    pos, fcurrent >>

SetUri == set_uri_fixed \/ set_uri_wlist \/ set_uri_wlog \/ set_uri_wset

UriHandlers(p) ==
    CASE p.uri = "fixed" -> << "set_uri_fixed" >>
      [] p.uri = "wlist" -> << "set_uri_wlist" >>
      [] p.uri = "wlog" -> << "set_uri_wlog" >>
      [] p.uri = "wset" -> << "set_uri_wset" >>

-----------------------------------------------------------------------------
\* How many of the first n URIs were for calls from ip.
GivenTo(ip, n) == Cardinality({k \in 1 .. n : asked[k].ip = ip})
Files(K) == {asked[k].uri : k \in K}

\* uri_wlist.c "allows for a given source IP to go through the list in order from
\* front to back, and then start from front again", whatever the calls of the
\* other addresses; uri_wlog.c asks "for the test to stop as soon as possible"
\* at the end of its list: while the test goes on no entry is used again; and
\* uri_wset.c misses at the rate it was given and stays within its set of files.
UrisInTurn ==
    /\ param.uri = "wlist" =>
         \A ip \in 0 .. param.addresses - 1, k \in DOMAIN asked :
            asked[k].ip = ip => asked[k].uri = uris[(GivenTo(ip, k - 1) % num_uris) + 1]
    /\ param.uri = "wlog" /\ ~ param.do_loop /\ Idle /\ running =>
         Len(asked) <= Cardinality(From(1))
    /\ param.uri = "wset" =>
         /\ Files(DOMAIN asked) \subseteq {"file"} \X (0 .. param.num_files - 1)
         /\ LET misses == {k \in 2 .. Len(asked) : asked[k].uri # asked[k - 1].uri}
            IN  param.num_clients < param.num_files /\ asked # << >> =>
                  (Len(asked) - 1) * param.miss_rate
                    \in (Cardinality(misses) - 1) * One + 1 .. (Cardinality(misses) + 1) * One - 1
=============================================================================
