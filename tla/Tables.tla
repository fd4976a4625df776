------------------------------- MODULE Tables -------------------------------
(***************************************************************************)
(* The tables behind the resource directories: what a directory            *)
(* <kind>/<id> holds and what its write functions send to the API.         *)
(*                                                                         *)
(* A table names the text files that every item has, those that only some  *)
(* items have, the files that can be written, and the subdirectories.      *)
(*                                                                         *)
(* A content is the set of what it says: of a name the name, of labels.json*)
(* the labels, of a status the status.  An empty or blank content is {},   *)
(* the labels {} of JSON too.                                              *)
(***************************************************************************)
\* The files that "most resources support writing to".
Labelled == {"name", "labels.json"}

Servers ==
  [text |-> {"created", "metadata.json"},
   maybe |-> {"server_type", "location", "public_ipv4", "public_ipv6", "image"},
   writable |-> Labelled \cup {"status"}, dirs |-> {"actions"}]

Volumes ==
  [text |-> {"status", "size", "linux_device", "created"},
   maybe |-> {"format", "server", "location"},
   writable |-> Labelled, dirs |-> {"actions"}]

Images ==
  [text |-> {"name", "description", "type", "status", "os_flavor", "os_version",
             "architecture", "disk_size", "created"},
   maybe |-> {}, writable |-> {"labels.json"}, dirs |-> {"actions"}]

Certificates ==
  [text |-> {"type", "fingerprint", "created"},
   maybe |-> {"not_valid_before", "not_valid_after", "domain_names"},
   writable |-> Labelled, dirs |-> {"actions"}]

Firewalls ==
  [text |-> {"created"}, maybe |-> {"rules.json", "applied_to.json"},
   writable |-> Labelled, dirs |-> {"actions"}]

FloatingIPs ==
  [text |-> {"description", "ip", "type", "created"}, maybe |-> {"server", "location"},
   writable |-> Labelled, dirs |-> {"actions"}]

LoadBalancers ==
  [text |-> {"created", "algorithm", "metadata.json"},
   maybe |-> {"type", "location", "public_ipv4", "public_ipv6",
              "services.json", "targets.json"},
   writable |-> Labelled, dirs |-> {"actions"}]

Networks ==
  [text |-> {"ip_range", "created"}, maybe |-> {"subnets.json", "routes.json"},
   writable |-> Labelled, dirs |-> {"actions"}]

PlacementGroups ==
  [text |-> {"type", "created"}, maybe |-> {"servers"},
   writable |-> Labelled, dirs |-> {}]

PrimaryIPs ==
  [text |-> {"ip", "type", "created"}, maybe |-> {"assignee_id", "location"},
   writable |-> Labelled, dirs |-> {"actions"}]

SSHKeys ==
  [text |-> {"fingerprint", "public_key", "created"}, maybe |-> {},
   writable |-> Labelled, dirs |-> {}]

ISOs ==
  [text |-> {"name", "description", "type"}, maybe |-> {"architecture"},
   writable |-> {}, dirs |-> {}]

Locations ==
  [text |-> {"name", "description", "country", "city", "network_zone"},
   maybe |-> {}, writable |-> {}, dirs |-> {}]

ServerTypes ==
  [text |-> {"name", "description", "cores", "memory", "disk", "storage_type",
             "cpu_type", "architecture"},
   maybe |-> {}, writable |-> {}, dirs |-> {}]

Table ==
  [servers |-> Servers, volumes |-> Volumes, images |-> Images,
   certificates |-> Certificates, firewalls |-> Firewalls,
   floating_ips |-> FloatingIPs, load_balancers |-> LoadBalancers,
   networks |-> Networks, placement_groups |-> PlacementGroups,
   primary_ips |-> PrimaryIPs, ssh_keys |-> SSHKeys, isos |-> ISOs,
   locations |-> Locations, server_types |-> ServerTypes]

\* The files of kind that are not directories.
FilesOf(kind) == Table[kind].text \cup Table[kind].maybe \cup Table[kind].writable

-----------------------------------------------------------------------------
(* The write functions *)

\* The nil map, which json.Unmarshal makes of null, and a text it refuses.
Null == {"null"}
Malformed == {"?"}

PowersOff == {{"off"}, {"shutdown"}}
PowersOn == {{"running"}, {"on"}}

\* The write function of file calls the API; otherwise it returns an error.
Calls(file, content) ==
  CASE file = "labels.json" -> content # Malformed
    [] file = "status"      -> content \in PowersOff \cup PowersOn
    [] OTHER                -> TRUE

\* hcloud-go leaves an empty name and a nil map out of the request.
LeftOut(file, content) ==
  \/ file = "name" /\ content = {}
  \/ file = "labels.json" /\ content = Null

\* Only newPrimaryIPsNode passes the map by its address and sends the nil map:
\* the API may keep the labels or clear them.
MayClear(kind, file, content) ==
  kind = "primary_ips" /\ file = "labels.json" /\ content = Null

\* A power action ends later; one whose end is reached already does nothing.
Power(now, goal, under) == IF now = goal THEN {now} ELSE {under, goal}

\* What the API may have for file once it has taken content over now.
Outcomes(kind, file, content, now) ==
  CASE MayClear(kind, file, content) -> {now, {}}
    [] LeftOut(file, content) -> {now}
    [] file = "status" /\ content \in PowersOff -> Power(now, {"off"}, {"busy"})
    [] file = "status" /\ content \in PowersOn -> Power(now, {"running"}, {"busy"})
    [] OTHER -> {content}
=============================================================================
