------------------------------- MODULE Transforms -------------------------------
(***************************************************************************)
(* The static side of an import: what an account can hold, what the        *)
(* transforms (aws/transforms/**.yml, run by mapper.py) make of a raw      *)
(* payload, and which part of an account an import specification (-s)      *)
(* selects when it fetches and when it deletes.                            *)
(*                                                                         *)
(* A Payload is a class of JSON documents that json_diff cannot tell       *)
(* apart, so two payloads are equal exactly when json_diff is empty.       *)
(***************************************************************************)
EXTENDS Naturals, FiniteSets, Sequences

CONSTANTS
  None,          \* absent: no row, no value, no account
  NoSpec,        \* ImportSpec None: no -s option
  Account,       \* the accounts of one provider_account row
  Service,       \* service names, as SVC.name and Resource.service hold them
  Name,          \* provider types and resource_gate names
  Uri,           \* resource uris
  Payload,       \* raw documents up to json_diff
  AttrName,      \* (attr_type, attr_name) pairs
  AttrVal,       \* attribute values up to json_diff
  Rel,           \* (parent uri, relation, target uri) triples
  LinkVal,       \* the attribute list of a relation, up to json_diff
  Specs,         \* the import specifications of the instance
  RootOf,        \* account -> uri of its synthesized root resource
  ServiceOf,     \* uri -> Resource.service
  TypeOf,        \* uri -> Resource.provider_type
  GatesOf,       \* uri -> the resource_gate names passed on the way to it
  Attrs,         \* payload -> attribute name -> value or None
  Yields,        \* uri -> payload -> the links map_relations yields
  ParentOf,      \* relation -> uri of its parent
  TargetOf,      \* relation -> uri of its target
  ImageOf,       \* payload of an instance -> uri of the image it runs, or None
  Public         \* payloads of images whose Public attribute is true

\* Everything has a 'base' source, these are extra
AWS_SOURCES == <<"credentialreport", "logspolicies">>
ExtraSource == {"credentialreport", "logspolicies"}
Source == {"base"} \cup ExtraSource

Kind == {"add", "update", "delete"}

\* What map_relations yields: a relation with its attributes.
Link == [rel : Rel, val : LinkVal]

\* The synthesized account roots; no service fetches them.
Roots == {RootOf[a] : a \in Account}

(***************************************************************************)
(* A specification maps each service it names to a set of resource names,  *)
(* the empty set standing for "everything of this service".                *)
(***************************************************************************)
ImportSpec(spec) ==
  spec # NoSpec => DOMAIN spec \subseteq Service /\ spec \in [DOMAIN spec -> SUBSET Name]

\* gate(service) is not None
service_gate(spec, s) == spec # NoSpec => s \in DOMAIN spec

\* The ServiceSpec that gate(service) returns.
Asked(spec, s) == IF spec = NoSpec THEN {} ELSE spec[s]

resource_gate(asked, n) == asked = {} \/ n \in asked

\* A service's import function reaches a resource through its own gates.
Fetched(spec, u) ==
  /\ service_gate(spec, ServiceOf[u])
  /\ \A g \in GatesOf[u] : resource_gate(Asked(spec, ServiceOf[u]), g)

\* The clauses every delete query adds: by service and provider_type.
InScope(spec, u) ==
  /\ service_gate(spec, ServiceOf[u])
  /\ resource_gate(Asked(spec, ServiceOf[u]), TypeOf[u])

ASSUME NoneAssumption ==
  /\ None \notin Payload /\ None \notin AttrVal /\ None \notin LinkVal
  /\ None \notin Account /\ None \notin Uri

\* A resource's documents are not the absence of a resource.
ASSUME DocumentsAssumption == None \notin [Source -> Payload \cup {None}]

ASSUME TransformsAssumption ==
  /\ \A spec \in Specs : ImportSpec(spec)
  /\ RootOf \in [Account -> Uri]
  /\ ServiceOf \in [Uri -> Service]
  /\ TypeOf \in [Uri -> Name]
  /\ GatesOf \in [Uri -> SUBSET Name]
  /\ Attrs \in [Payload -> [AttrName -> AttrVal \cup {None}]]
  /\ Yields \in [Uri -> [Payload -> SUBSET Link]]
  /\ ParentOf \in [Rel -> Uri]
  /\ TargetOf \in [Rel -> Uri]
  /\ ImageOf \in [Payload -> Uri \cup {None}]
  /\ Public \subseteq Payload

\* synthesize_account_root, _find_missing_amis and the log groups of
\* add_logs_resource_policies each know the service of what they add or look for.
ASSUME ServicesAssumption ==
  /\ \A a \in Account : ServiceOf[RootOf[a]] = "iam"
  /\ \A p \in Payload : ImageOf[p] \in Uri => ServiceOf[ImageOf[p]] = "ec2"
  /\ \A u \in Uri : TypeOf[u] = "LogGroup" => ServiceOf[u] = "logs"

\* Images.yml has no relations, and an image runs no image; the root is an
\* account, mapped by no transform.
ASSUME KindsAssumption ==
  /\ \A p \in Public : ImageOf[p] = None /\ \A u \in Uri : Yields[u][p] = {}
  /\ \A a \in Account : TypeOf[RootOf[a]] # "Instance" /\ \A p \in Payload : Yields[RootOf[a]][p] = {}
=================================================================================
