--------------------------- MODULE MCSubjectNames ---------------------------
(***************************************************************************)
(* SubjectNames for TLC: certificates with up to two alternative names and *)
(* a common name.                                                          *)
(***************************************************************************)
EXTENDS SubjectNames

Dns(labels) == [valid |-> TRUE, as_reference |-> TRUE, labels |-> labels]

\* Absolute names are references only; malformed ones are neither.
Absolute(labels) == [Dns(labels) EXCEPT !.valid = FALSE]

Malformed == [valid |-> FALSE, as_reference |-> FALSE, labels |-> << "-" >>]

DnsNames ==
    {Dns(<< "a", "b", "c" >>), Dns(<< "*", "b", "c" >>), Dns(<< "b", "c" >>),
     Dns(<< "x", "a", "b", "c" >>), Absolute(<< "a", "b", "c" >>), Malformed}

Address == << 10, 0, 0, 1 >>

GeneralNames ==
    {Ok([type |-> "DnsName", value |-> n]) : n \in DnsNames}
    \cup {Ok([type |-> "IpAddress", value |-> Address]),
          Ok([type |-> "IpAddress", value |-> << 10, 0 >>]),
          Ok([type |-> "Uri", value |-> "u"]),
          Ok([type |-> "Unsupported", value |-> 1]), Err("BadDer")}

AltNames == {None} \cup {Some(s) : s \in UNION {[1..k -> GeneralNames] : k \in 0..2}}

Certs(common_names) ==
    {[subject |-> "S", subject_alt_name |-> san, common_name |-> cn] :
         san \in AltNames, cn \in common_names}

CommonNames == {Ok(None), Ok(Some(Dns(<< "a", "b", "c" >>))), Ok(Some(Malformed)),
                Err("TrailingData")}

Base(leading_dot, labels) ==
    Ok([type |-> "DnsName",
        value |-> [valid |-> TRUE, leading_dot |-> leading_dot, labels |-> labels]])

Subtrees ==
    {Base(dot, l) : dot \in BOOLEAN, l \in {<< "a", "b", "c" >>, << "b", "c" >>}}
    \cup {Base(FALSE, << >>), Ok([type |-> "DirectoryName", value |-> "S"]),
          Ok([type |-> "Unsupported", value |-> 1]),
          Ok([type |-> "IpAddress", value |-> << 10, 0, 0, 0, 255, 0, 0, 0 >>])}

DnsQueries ==
    {[kind |-> "dns", cert |-> c, reference |-> [labels |-> l]] :
         c \in Certs({Ok(Some(Dns(<< "a", "b", "c" >>)))}),
         l \in {<< "a", "b", "c" >>, << "d", "b", "c" >>, << "b", "c" >>,
                << "x", "a", "b", "c" >>, << "c" >>}}

IpQueries ==
    {[kind |-> "ip", cert |-> c, reference |-> r] :
         c \in Certs({Ok(None)}), r \in {Address, << 10, 0, 0, 2 >>}}

ListQueries == {[kind |-> "list", cert |-> c] : c \in Certs(CommonNames)}

ConstraintQueries ==
    {[kind |-> "constraints", cert |-> c, permitted |-> p, excluded |-> e,
      cn_is_dns_name |-> cn] :
         c \in Certs(CommonNames), cn \in BOOLEAN,
         p \in {None, Some(<< Base(FALSE, << "b", "c" >>) >>)},
         e \in {None} \cup {Some(<< t >>) : t \in Subtrees}}

MCQueries == DnsQueries \cup IpQueries \cup ListQueries \cup ConstraintQueries
=============================================================================
