-------------------------- MODULE MCConfiguration --------------------------
(* Two organisations, one of them in three spellings, and the ways in      *)
(* which a repository's destinations are declared, rightly and wrongly.    *)
EXTENDS Configuration

CONSTANTS Acme, ACME, acme, beta

MCLower == [k \in Keys |-> IF k = beta THEN beta ELSE acme]
MCPosition == [k \in Keys |->
    CASE k = ACME -> 1 [] k = Acme -> 2 [] k = acme -> 3 [] OTHER -> 4]

Ours == [owner |-> acme, name |-> "x"]
NoOwner == [owner |-> None, name |-> "x"]
Bad == [owner |-> acme, name |-> None]
MCRepos == {Ours, NoOwner, Bad}

At(forge, repo, role, visibility, host) ==
    [forge |-> forge, repo |-> repo, role |-> role, visibility |-> visibility,
     host |-> host]
Public == At("github", Ours, "mirror", "public", FALSE)
Private == At("forgejo", Ours, "mirror", "private", TRUE)
Release == At("github", NoOwner, "release", "undeclared", FALSE)
Undeclared == At("github", Ours, "mirror", "undeclared", FALSE)
Hostless == At("forgejo", Ours, "mirror", "private", FALSE)

GithubAlias(v) == [github |-> Ours, url |-> None, forge |-> "forgejo", visibility |-> v]
UrlAlias == [github |-> None, url |-> Bad, forge |-> "github", visibility |-> "private"]
MCMirrors == {GithubAlias("public"), GithubAlias("undeclared"), UrlAlias}

Says2(ds, m, g) == [destinations |-> ds, mirror |-> m, globs |-> g]
MCRepoConfigs ==
    {Says2(<<>>, None, FALSE), Says2(<<Public>>, None, TRUE),
     Says2(<<Public>>, None, FALSE), Says2(<<Private, Release>>, UrlAlias, FALSE),
     Says2(<<Undeclared>>, None, TRUE), Says2(<<Release>>, GithubAlias("public"), TRUE),
     Says2(<<>>, GithubAlias("undeclared"), FALSE)}
MCOverlays ==
    {Says2(Unset, Unset, Unset), Says2(<<Public>>, Unset, Unset),
     Says2(Unset, Unset, FALSE), Says2(Unset, None, Unset),
     Says2(<<Private>>, Unset, TRUE), Says2(Unset, GithubAlias("public"), Unset),
     Says2(<<Hostless>>, Unset, Unset), Says2(<<Public, Release>>, None, TRUE)}

Section(c) == [repo |-> c, login |-> None]
Orgs(a1, a2, a3, b) ==
    [k \in Keys |-> CASE k = ACME -> a1 [] k = Acme -> a2 [] k = acme -> a3 [] OTHER -> b]
MCFiles ==
    [layout : {"orgs"}, orgs :
        {Orgs(None, Section(c), None, None) : c \in MCRepoConfigs}
        \cup {Orgs(None, None, Section(c), [repo |-> None, login |-> acme]) :
                 c \in {Says2(<<>>, None, FALSE), Says2(<<Public>>, None, TRUE),
                        Says2(<<Undeclared>>, None, TRUE)}}
        \cup {Orgs(Section(Says2(<<Public>>, None, TRUE)), None,
                   Section(Says2(<<Private, Release>>, UrlAlias, FALSE)), None)}]
    \cup [layout : {"top"}, orgs :
        {Orgs(None, Section(c), None, [repo |-> None, login |-> None]) : c \in MCRepoConfigs}]
    \cup {[layout |-> "broken", orgs |-> [k \in Keys |-> None]]}
=============================================================================
