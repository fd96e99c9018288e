---------------------------- MODULE DiagnosticsMC ----------------------------
(***************************************************************************)
(* Every mixture of credential, access, openness and POSTs, and a healthy   *)
(* farm of which parts are closed to the account.                           *)
(***************************************************************************)
EXTENDS Diagnostics

Account(right, member, services, site, openBin, offers, posts, service, refusal) ==
    [right |-> right, member |-> member, services |-> services, root |-> site,
     openBin |-> openBin, offers |-> offers, posts |-> posts, rest |-> service,
     refusal |-> refusal, closed |-> {}, deny |-> "fault"]
Mixtures ==
    {Account(a, b, c, d, e, f, g, h, i) :
        a \in BOOLEAN, b \in BOOLEAN, c \in BOOLEAN,
        d \in {"open", "closed", "moved", "forms", "login"}, e \in BOOLEAN,
        f \in {"ntlm", "basic", "other"}, g \in {"work", "primed", "fail"},
        h \in {"collections", "other", "missing"}, i \in {"401", "page"}}
Healthy(posts, site, openBin) ==
    Account(TRUE, TRUE, TRUE, site, openBin, "ntlm", posts, "collections", "401")
Closings == {{<<"root", "lists">>}, {<<"sub", "lists">>}, {<<"root", "cases">>},
             {<<"sub", "cases">>, <<"root", "users">>},
             {<<"root", "cases">>, <<"root", "users">>}}
PartlyClosed ==
    {[Healthy(posts, site, openBin) EXCEPT !.closed = c, !.deny = d] :
        posts \in {"work", "primed"}, site \in {"open", "closed", "moved"},
        openBin \in BOOLEAN,
        c \in Closings, d \in {"fault", "403"}}
AllFarms == Mixtures \cup PartlyClosed
AllServices == SUBSET Options
=============================================================================
