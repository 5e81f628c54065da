--------------------------- MODULE MCEnvScripts ---------------------------
(* The three scripts' lists, cut to the prefix they share and, for liboqs and  *)
(* sqisign, one of their own.                                                 *)
EXTENDS EnvScripts, TLC

MCSearch ==
  [liboqs |-> <<"/usr", "/usr/local">>,
   sqisign |-> <<"sqisignc/local-install", "/usr/local">>,
   qruov |-> <<"/usr/local">>]

\* Installed before: all but the checkout's own sqisign; or qruov alone, with
\* its prefix to itself.
MCBefore ==
  {Installs \ {<<"sqisign", "sqisignc/local-install">>}, {<<"qruov", "/usr/local">>}}

\* /usr is the package manager's.
MCPackages == {<<"liboqs", "/usr">>}

Symmetry == Permutations(Shells)
=============================================================================
