----------------------------- MODULE MCLogSources -----------------------------
\* Instance of LogSources for TLC: a virtual host's log, a plain one, a rotated
\* one, an auth.log and a listed one named like a virtual host's; lines that
\* meet each rule; a container named like a virtual host.
EXTENDS LogSources

CONSTANTS h1, client, localhost

File(name, vhost, rotated) == [name |-> name, vhost |-> vhost, rotated |-> rotated]
WatchedFiles == {File("a-access.log", "a", FALSE), File("access.log", None, FALSE),
                 File("access.log.1", None, TRUE)}
ListedFiles == {File("auth.log", None, FALSE), File("b-access.log", "b", FALSE)}

Plain == [form |-> "access", sound |-> TRUE, status |-> 200, request |-> TRUE, host |-> None,
          client |-> client, text |-> {}, path |-> {}, agent |-> {}, ssh |-> "no"]
Auth == [Plain EXCEPT !.form = "syslog"]
Words(l, field, words) == [l EXCEPT ![field] = words, !.text = @ \cup words]
Lines ==
  {Plain, [Plain EXCEPT !.sound = FALSE], [Plain EXCEPT !.form = "blank"],
   [Plain EXCEPT !.host = "auth.log"],
   Words([Plain EXCEPT !.status = 404], "path", {"admin page", "scanner path"}),
   Words([Plain EXCEPT !.client = localhost], "path", {"sql-injection", "path-traversal"}),
   Words([Plain EXCEPT !.status = 500], "path", {"static asset", "sql-injection", "command-injection"}),
   Words(Words(Plain, "agent", {"scanner", "bot"}), "path", {"health check", "sensitive-file"}),
   Words([Plain EXCEPT !.request = FALSE, !.host = "a"], "text", {"command-injection"}),
   [Auth EXCEPT !.ssh = "failed", !.text = {"brute-force"}],
   [Auth EXCEPT !.ssh = "accepted", !.text = {"tls-error"}],
   [Auth EXCEPT !.text = {"failed", "password", "tls-error"}],
   [Auth EXCEPT !.text = {"invalid"}]}

Vhosts == {[unit |-> "nginx-vhost", name |-> n] : n \in {"a", "b", "auth.log"}}
Locals == Vhosts \cup {[unit |-> "system-log", name |-> n] : n \in {"access.log", "auth.log"}}
Remotes == {[unit |-> "docker-container", name |-> "a"], [unit |-> "nginx-vhost", name |-> "a"]}
Sources == Locals \cup Remotes
Handlers == {h1}
Localhost == {localhost}
=============================================================================
