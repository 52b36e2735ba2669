----------------------------- MODULE GitProtocol -----------------------------
(***************************************************************************)
(* What the git inspectors read out of requests and responses of the git   *)
(* protocol, version 2.  A body is a sequence of packets: a control packet *)
(* <<"flush">>, <<"end">>, <<"delim">>, <<"bad">> (a length that is no      *)
(* number or too small), a line such as <<"want", commit>>, or a packet of  *)
(* a packfile <<band, commit>>.                                            *)
(***************************************************************************)
EXTENDS Naturals, Sequences, SequencesExt

Ends(p) == p[1] \in {"flush", "end", "packfile", "NAK"}

\* decodeGitProtocol reads up to a packet that ends the text; running out of
\* packets is an error.
decodeGitProtocol(pkts) ==
  LET end == SelectInSeq(pkts, LAMBDA p : Ends(p) \/ p[1] = "bad")
  IN  IF end = 0 \/ pkts[end][1] = "bad"
        THEN [ok |-> FALSE, msgs |-> <<>>, rest |-> <<>>]
        ELSE [ok |-> TRUE,
              msgs |-> SubSeq(pkts, 1, IF pkts[end][1] \in {"flush", "end"} THEN end - 1 ELSE end),
              rest |-> SubSeq(pkts, end + 1, Len(pkts))]

Values(msgs, key) == {msgs[i][2] : i \in {j \in DOMAIN msgs : msgs[j][1] = key}}

Count(msgs, key) == Cardinality({j \in DOMAIN msgs : msgs[j][1] = key})

\* The last message of a kind counts.
LastValue(msgs, key, default) ==
  LET i == SelectLastInSeq(msgs, LAMBDA p : p[1] = key)
  IN  IF i = 0 THEN default ELSE msgs[i][2]

Command(msgs) == LastValue(msgs, "command", "none")

Wants(msgs) == Values(msgs, "want")

IsShallow(msgs) == LastValue(msgs, "deepen", "0") = "1"

NumWants(msgs) == Cardinality(Wants(msgs)) + Count(msgs, "want-ref")

\* inspectRequestCommand: "Pending" or "Rejected"
inspectRequestCommand(msgs) ==
  IF \/ Command(msgs) = "ls-refs"
     \/ Command(msgs) = "fetch" /\ IsShallow(msgs) /\ Cardinality(Wants(msgs)) <= 1
    THEN "Pending"
    ELSE "Rejected"

\* fetchResponseIsShallow
fetchResponseIsShallow(msgs) == Count(msgs, "shallow") > 0 /\ Count(msgs, "unshallow") = 0

\* getRefFromWants: a want-ref alone is not supported.
getRefFromWants(msgs) == IF Wants(msgs) = {} THEN "" ELSE CHOOSE w \in Wants(msgs) : TRUE

\* readPack keeps the packets of sideband 1, up to a packet without content.
\* It fails when the pack is cut off.
readPack(pkts) ==
  LET end == SelectInSeq(pkts, LAMBDA p : p[1] \in {"flush", "end", "delim", "bad"})
  IN  IF end = 0 \/ pkts[end][1] = "bad"
        THEN [ok |-> FALSE, commits |-> {}]
        ELSE [ok |-> TRUE, commits |-> Values(SubSeq(pkts, 1, end - 1), "1")]

\* UnpackObjects and Checkout: the text is skipped, the pack is unpacked, and
\* the commit has to be in it.
Unpacks(pkts, ref) ==
  LET pack == readPack(decodeGitProtocol(pkts).rest)
  IN  pack.ok /\ ref \in pack.commits

\* SmartQueryInspector.decodeProtocol: a first section that only names the
\* service is skipped.
decodeProtocol(pkts) ==
  LET first == decodeGitProtocol(pkts)
  IN  IF first.ok /\ first.msgs = << <<"service">> >> THEN decodeGitProtocol(first.rest).ok
                                                     ELSE first.ok
=============================================================================
