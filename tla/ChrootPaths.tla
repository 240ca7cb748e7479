--------------------------- MODULE ChrootPaths ---------------------------
(***************************************************************************)
(* The paths of the configuration and the directory the daemon confines    *)
(* itself to: the path functions of src/use_cases/config_bootstrap.rs.     *)
(* A path has one name for the daemon after chroot (the runtime name) and  *)
(* one for everybody else (the host name).                                 *)
(*                                                                         *)
(* A path is whether it is absolute and its components; the empty path has *)
(* none and is relative.  A database URL is its kind and a path.           *)
(***************************************************************************)
EXTENDS Integers, Sequences

CONSTANT Bad  \* an error

Path(absolute, parts) == [absolute |-> absolute, parts |-> parts]

\* Mutant: ".." is dropped and nothing is popped.
normalize_lexical_NoPop(path) == Path(path.absolute, SelectSeq(path.parts, LAMBDA c : c \notin {".", ".."}))

\* One component; PathBuf::pop does nothing at the root.
pushed(ps, c) ==
  IF c = "." THEN ps ELSE IF c = ".." THEN SubSeq(ps, 1, Len(ps) - 1) ELSE Append(ps, c)

normalize_lexical(path) ==
  LET normalized[i \in 0 .. Len(path.parts)] ==
        IF i = 0 THEN <<>> ELSE pushed(normalized[i - 1], path.parts[i])
  IN Path(path.absolute, normalized[Len(path.parts)])

starts_with(ps, dir) == Len(dir) <= Len(ps) /\ SubSeq(ps, 1, Len(dir)) = dir

join(dir, path) == IF path.absolute THEN path ELSE Path(dir.absolute, dir.parts \o path.parts)

parse_chroot_dir(dir) == IF dir.absolute THEN normalize_lexical(dir) ELSE Bad

\* dir is normalised.
resolve_scoped_host_path(path, dir) ==
  LET to == normalize_lexical(join(dir, path))
  IN IF path # Path(FALSE, <<>>) /\ starts_with(to.parts, dir.parts) THEN to ELSE Bad

resolve_path_for_chroot_host(path, dir) ==
  IF parse_chroot_dir(dir) = Bad THEN Bad ELSE resolve_scoped_host_path(path, parse_chroot_dir(dir))

resolve_path_for_chroot_runtime(path, dir) ==
  LET host == resolve_path_for_chroot_host(path, dir)
  IN IF host = Bad THEN Bad
     ELSE Path(TRUE, SubSeq(host.parts, Len(parse_chroot_dir(dir).parts) + 1, Len(host.parts)))

UrlFor(url, resolved) ==
  CASE url.kind = "memory" -> Bad
    [] url.kind = "server" -> url
    [] url.kind = "sqlite" -> IF resolved = Bad THEN Bad ELSE [url EXCEPT !.path = resolved]

sqlite_url_for_chroot_runtime(url, dir) == UrlFor(url, resolve_path_for_chroot_runtime(url.path, dir))

sqlite_url_for_chroot_host(url, dir) == UrlFor(url, resolve_path_for_chroot_host(url.path, dir))

validate_sqlite_path(url, dir) ==
  url.kind # "memory" /\ (url.kind = "sqlite" => resolve_path_for_chroot_host(url.path, dir) # Bad)

validate_listener_tls_paths(listeners, dir) ==
  \A l \in listeners : l.enabled => \A p \in {l.cert_path, l.key_path} : resolve_path_for_chroot_host(p, dir) # Bad

validate_control_socket_path(path, dir) == resolve_path_for_chroot_host(path, dir) # Bad

\* The directory is normalised once here and once more in each function.
validate_config(config) ==
  LET dir == parse_chroot_dir(config.chroot_dir)
  IN /\ dir # Bad
     /\ validate_sqlite_path(config.database, dir)
     /\ validate_listener_tls_paths(config.listeners, dir)
     /\ validate_control_socket_path(config.socket, dir)

-----------------------------------------------------------------------------
(* run_daemon: a file has its runtime name if the process is root and so   *)
(* confines itself, and its host name otherwise.                           *)
NameOf(path, will_chroot, dir) ==
  IF will_chroot THEN resolve_path_for_chroot_runtime(path, dir) ELSE resolve_path_for_chroot_host(path, dir)

database_url(url, will_chroot, dir) ==
  IF will_chroot THEN sqlite_url_for_chroot_runtime(url, dir) ELSE sqlite_url_for_chroot_host(url, dir)

control_socket_path(path, will_chroot, dir) == NameOf(path, will_chroot, dir)

\* What `stop`, `reload` and `status` open.
resolve_control_socket_path(path, dir) == resolve_path_for_chroot_host(path, dir)

\* A listener takes its certificate from ACME or from its own files.
listener_tls(l, acme, will_chroot, dir) ==
  IF acme THEN [from |-> "acme"]
  ELSE [from |-> "files", cert_path |-> NameOf(l.cert_path, will_chroot, dir),
        key_path |-> NameOf(l.key_path, will_chroot, dir)]

-----------------------------------------------------------------------------
\* The directory that an entry of the directory at leads to; ".." goes up.
Entered(at, c) ==
  CASE c = "." -> at
    [] c = ".." -> IF at = <<>> THEN at ELSE [i \in 1 .. Len(at) - 1 |-> at[i]]
    [] OTHER -> Append(at, c)

\* Where a walk along ps from the directory at leads.
Walk(at, ps) ==
  LET to[i \in 0 .. Len(ps)] == IF i = 0 THEN at ELSE Entered(to[i - 1], ps[i])
  IN to[Len(ps)]

(* In a configuration that validate_config accepted, the control socket    *)
(* that the daemon binds inside its chroot is the one that a client        *)
(* outside opens, and the database, the certificates and the keys are the  *)
(* same files whether or not the daemon confines itself; all of them lie   *)
(* in the directory, where walking the configured path leads.              *)
SameFileInsideAndOut(config) ==
  validate_config(config) =>
    \A root \in BOOLEAN :
      LET dir  == Walk(<<>>, config.chroot_dir.parts)
          Is(path, name) ==
            /\ name # Bad
            /\ (IF root THEN dir ELSE <<>>) \o name.parts
                 = Walk(IF path.absolute THEN <<>> ELSE dir, path.parts)
            /\ starts_with((IF root THEN dir ELSE <<>>) \o name.parts, dir)
      IN /\ Is(config.socket, control_socket_path(config.socket, root, config.chroot_dir))
         /\ resolve_control_socket_path(config.socket, config.chroot_dir).parts
              = Walk(IF config.socket.absolute THEN <<>> ELSE dir, config.socket.parts)
         /\ \A l \in {x \in config.listeners : x.enabled} :
              LET tls == listener_tls(l, FALSE, root, config.chroot_dir)
              IN Is(l.cert_path, tls.cert_path) /\ Is(l.key_path, tls.key_path)
         /\ config.database.kind = "sqlite" =>
              LET url == database_url(config.database, root, config.chroot_dir)
              IN url # Bad /\ Is(config.database.path, url.path)
=============================================================================
