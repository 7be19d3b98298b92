----------------------------- MODULE MCInstaller -----------------------------
(* Instances of Installer for TLC. *)
EXTENDS InstallerProofs

\* the settings of the embedded default configuration
Defaults ==
  [admin |-> FALSE, sessionSecret |-> Empty, cluster |-> FALSE,
   database |-> "sqlite", redis |-> FALSE, ipHashSecret |-> FALSE,
   encryption |-> FALSE, identity |-> Empty, identityFile |-> <<>>,
   e2ee |-> FALSE, indexPage |-> TRUE, storage |-> "local",
   proxyDownloads |-> FALSE, cleanup |-> TRUE]

Comments == [field \in {} |-> Empty]

Clustered ==
  [admin |-> TRUE, cluster |-> TRUE, database |-> "postgres", redis |-> TRUE,
   ipHashSecret |-> TRUE, storage |-> "s3", e2ee |-> TRUE]

Keys(identities) ==
  [encryption |-> TRUE, identityFile |-> identities] @@ Clustered

With(file, env) == [configFile |-> file, environment |-> env]

\* encryption at rest with a key that is then rotated, and turned off; a
\* variable that is set to nothing; a host with a secret of its own that has
\* its key in the environment
Choices ==
  [cluster |->
     {With(Keys(<<"k1">>), [sessionSecret |-> "s1"]),
      With(Keys(<<"k2", "k1">>), [sessionSecret |-> "s1"]),
      With([encryption |-> FALSE] @@ Keys(<<"k1">>), [sessionSecret |-> "s1"]),
      With(Keys(<<"k1">>), [sessionSecret |-> Empty])},
   systemd |->
     {With([admin |-> TRUE, encryption |-> TRUE], [identity |-> "k1"])}]
=============================================================================
