----------------------------- MODULE MCSecurity -----------------------------
(***************************************************************************)
(* Choices of TLS blocks, and Reality blocks and lists with blanks, junk,  *)
(* empty, overlong and repeated IDs and IDs that differ in trailing zeros. *)
(***************************************************************************)
EXTENDS Security

Sid(b)    == [bytes |-> b, blanks |-> FALSE, hex |-> TRUE]
Blanks(b) == [Sid(b) EXCEPT !.blanks = TRUE]
Junk      == [Sid(<<>>) EXCEPT !.hex = FALSE]

Entry(s, n) == [sid |-> s, node |-> n]

SidLists == {<<>>,
             <<Entry(Sid(<<1, 1>>), "child1"), Entry(Blanks(<<1>>), "child2")>>,
             <<Entry(Sid(<<1>>), "child1"), Entry(Sid(<<1, 0>>), "child2")>>,
             <<Entry(Sid(<<1, 1>>), "child1"), Entry(Sid(<<1, 1>>), "child2"),
               Entry(Sid(<<0>>), "child1"), Entry(Junk, "child1"),
               Entry(Sid(<<1, 1, 1>>), "child2"), Entry(Sid(<<>>), "child2")>>}

Block(ids) == [target |-> TRUE, name |-> TRUE, key |-> "good", ids |-> ids]

IdLists == {<<Sid(<<1, 1>>), Sid(<<1>>), Sid(<<>>)>>,
            <<Sid(<<0, 1>>), Blanks(<<1, 1>>)>>}

RealityConfigs ==
    {[net |-> n, sec |-> "reality", block |-> Block(ids), sids |-> l] :
        n \in {Tcp, Ws}, ids \in IdLists, l \in SidLists}
    \cup {[net |-> Tcp, sec |-> "reality", block |-> b, sids |-> <<>>] :
            b \in {Block(<<>>), [Block(<<>>) EXCEPT !.key = "bad"], [Block(<<>>) EXCEPT !.target = FALSE]}}

TLS(n, f, p, min, max) ==
    [net |-> n, sec |-> "tls", sids |-> <<>>,
     block |-> [file |-> f, pem |-> p, min |-> min, max |-> max,
                alpn |-> IF min = Unset THEN "absent" ELSE "given"]]

\* Every choice of certificate, with versions set, unset and unknown.
TLSConfigs ==
    {TLS(n, f, p, Unset, 11) : n \in {Tcp, Ws}, f \in FileStates, p \in PemStates}
    \cup {TLS(Tcp, f, "absent", 11, 13) : f \in FileStates}
    \cup {TLS(Ws, "absent", "pairP", Unset, Unknown)}

AllConfigs == RealityConfigs \cup TLSConfigs

ClientIds == {<<1, 1>>, <<1>>, <<1, 0>>, <<>>}
=============================================================================
