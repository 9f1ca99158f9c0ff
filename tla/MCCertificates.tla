---------------------------- MODULE MCCertificates ----------------------------
(***************************************************************************)
(* Certificates for TLC: two projects and the suffix itself, which has no  *)
(* project root.  "acme" has its root, a service one label below it and a  *)
(* domain two labels below it that sorts after the root, "blog" its root   *)
(* and a domain two labels below it that sorts before the root, so that    *)
(* mkcert's files for it are named after that domain.                      *)
(***************************************************************************)
EXTENDS Certificates

MCProjects == {"acme", "blog"}
MCHosts == {"test", "acme.test", "api.acme.test", "v1.api.acme.test",
            "blog.test", "1.www.blog.test"}
MCProjectOf ==
  [h \in MCHosts |-> CASE h = "test" -> "none"
                       [] h \in {"blog.test", "1.www.blog.test"} -> "blog"
                       [] OTHER -> "acme"]
MCRoot == [p \in MCProjects |-> IF p = "acme" THEN "acme.test" ELSE "blog.test"]
MCDeep == {"v1.api.acme.test", "1.www.blog.test"}

\* Snapshots with and without a host below the wildcard's reach, of one project,
\* of both and of none.
MCSnapshots ==
  {{}, {"test"}, {"acme.test", "api.acme.test"}, {"api.acme.test", "test"},
   {"api.acme.test", "v1.api.acme.test"}, {"1.www.blog.test"},
   {"api.acme.test", "blog.test", "1.www.blog.test"},
   {"acme.test", "v1.api.acme.test", "blog.test", "test"}}

\* The alphabetical order of the names above.
MCRank ==
  [h \in MCHosts |-> CASE h = "1.www.blog.test" -> 1 [] h = "acme.test" -> 2
                       [] h = "api.acme.test" -> 3   [] h = "blog.test" -> 4
                       [] h = "test" -> 5            [] h = "v1.api.acme.test" -> 6]
===============================================================================
