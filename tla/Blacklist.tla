------------------------------- MODULE Blacklist -------------------------------
(* ngx::limit::blacklist (limit/blacklist.cpp): the domains that may not be       *)
(* visited, kept in lower case, and the endpoints, which no one asks for.  A      *)
(* name is the sequence of its tokens; "." is one of them.                        *)
EXTENDS Integers, Sequences, SequencesExt

CONSTANT LowerToken      \* std::tolower of a token

Lowered(name) == [i \in DOMAIN name |-> LowerToken[name[i]]]

EmptyBlacklist == [ips |-> {}, domains |-> {}]

Load(b, ips, domains) == [ips |-> ips, domains |-> {Lowered(d) : d \in domains}]

\* insert_domain that keeps the spelling it is given.
InsertAsGiven(b, d) == [b EXCEPT !.domains = @ \cup {d}]
InsertDomain(b, d) == [b EXCEPT !.domains = @ \cup {Lowered(d)}]
InsertEndpoint(b, ip) == [b EXCEPT !.ips = @ \cup {ip}]
ClearBlacklist(b) == EmptyBlacklist

Endpoint(b, ip) == ip \in b.ips

\* domain that tears labels apart.
DomainAnySuffix(b, host) == \E d \in b.domains : IsSuffix(d, Lowered(host))

\* domain: the name, then what is left of it behind each dot.
Domain(b, host) ==
    LET view == Lowered(host)
        cuts == {0} \cup {i \in DOMAIN view : view[i] = "."}
    IN  \E i \in cuts : SubSeq(view, i + 1, Len(view)) \in b.domains

===============================================================================
