----------------------------- MODULE ConfigLoader -----------------------------
(***************************************************************************)
(* ConfigurationManager::LoadConfiguration, one step per line of the file.  *)
(* A line is its key and the value atoi makes of what follows; a key "" is  *)
(* a blank line, a comment, or a line that starts with '='.  The fields of  *)
(* RIOMainConfig and ServiceData hold whatever memory held (Unset) until a  *)
(* line sets them.                                                          *)
(***************************************************************************)
EXTENDS Integers, Sequences, FiniteSets, FiniteSetsExt

CONSTANTS Files,            \* what the configuration file may be: lists of lines
          Unset,            \* an uninitialised field
          NoEquals,         \* value of a line without '=': the key's own text
          NoValue           \* value of a line that ends after '='

MainKeys    == {"BUFFER_SIZE", "DEQUEUE_COUNT", "NUM_THREADS", "SPINCOUNT"}
ServiceKeys == {"SERVICE_TYPE", "SERVICE_CODE", "SERVICE_PORT", "SERVICE_MAX_CLIENTS",
                "SERVICE_MAX_ACCEPTS", "SERVICE_RQ_MAX_RECEIVES", "SERVICE_RQ_MAX_SENDS",
                "SERVICE_ADDRESS_REQUIRED"}
configMap   == MainKeys \cup ServiceKeys \cup {"NEW_SERVICE"}

ASSUME FilesAssumption ==
  \A f \in Files : f \in Seq([key : STRING, value : Int \cup {NoEquals, NoValue}])

VARIABLES
  file,
  line,             \* lines read
  rioMainConfig,
  serviceData,      \* the service being read
  serviceCount,
  services,
  loading           \* closed, reading, then loaded, failed or threw

configuration == <<rioMainConfig, serviceData, serviceCount, services>>
loader        == <<file, line, configuration, loading>>

NewRIOMainConfig == [k \in MainKeys |-> Unset]
NewServiceData   == [k \in ServiceKeys |-> Unset]

LoadInit ==
  /\ file \in Files /\ line = 0
  /\ rioMainConfig = NewRIOMainConfig
  /\ serviceData = NewServiceData /\ serviceCount = 0 /\ services = <<>>
  /\ loading = "closed"

-----------------------------------------------------------------------------

OpenFile ==
  /\ loading = "closed"
  /\ loading' \in {"reading", "failed"}
  /\ UNCHANGED <<file, line, configuration>>

\* What the text of a value converts to; a flag's is true for 1 only.
Converted(k, v) ==
  LET n == IF v = NoEquals THEN 0 ELSE v
  IN IF k = "SERVICE_ADDRESS_REQUIRED" THEN IF n = 1 THEN 1 ELSE 0 ELSE n

Key   == file[line + 1].key
Value == Converted(Key, file[line + 1].value)

\* getline gives a line with one of these keys.
Reads(keys) ==
  /\ loading = "reading" /\ line < Len(file)
  /\ Key \in keys
  /\ line' = line + 1
  /\ UNCHANGED file

HasValue == file[line + 1].value # NoValue /\ UNCHANGED loading

\* Skipped before its value is looked at, or after, if the key is unknown.
SkipLine ==
  \/ Reads({""}) /\ UNCHANGED <<configuration, loading>>
  \/ /\ loading = "reading" /\ line < Len(file)
     /\ Key \notin configMap \cup {""} /\ HasValue
     /\ line' = line + 1
     /\ UNCHANGED <<file, configuration>>

\* find_first_not_of finds nothing after '=' and substr throws, before the test
\* for an empty value is reached; nobody catches it.
SubstrThrows ==
  /\ loading = "reading" /\ line < Len(file)
  /\ Key # "" /\ file[line + 1].value = NoValue
  /\ loading' = "threw"
  /\ UNCHANGED <<file, line, configuration>>

SetMain ==
  /\ Reads(MainKeys) /\ HasValue
  /\ rioMainConfig' = [rioMainConfig EXCEPT ![Key] = Value]
  /\ UNCHANGED <<serviceData, serviceCount, services>>

SetService ==
  /\ Reads(ServiceKeys) /\ HasValue
  /\ serviceData' = [serviceData EXCEPT ![Key] = Value]
  /\ UNCHANGED <<rioMainConfig, serviceCount, services>>

\* Mutation: the record of the service before is filled on.
NewServiceKeepsData ==
  /\ Reads({"NEW_SERVICE"}) /\ HasValue
  /\ services' = IF serviceCount > 0 THEN Append(services, serviceData) ELSE services
  /\ serviceCount' = serviceCount + 1
  /\ UNCHANGED <<rioMainConfig, serviceData>>

\* Mutation: the first one is taken to end a service too.
NewServiceAlwaysEnds ==
  /\ Reads({"NEW_SERVICE"}) /\ HasValue
  /\ services' = Append(services, serviceData)
  /\ serviceCount' = serviceCount + 1
  /\ serviceData' = NewServiceData
  /\ UNCHANGED rioMainConfig

\* The first one has no service before it; what was read so far is dropped.
NewService ==
  /\ Reads({"NEW_SERVICE"}) /\ HasValue
  /\ services' = IF serviceCount > 0 THEN Append(services, serviceData) ELSE services
  /\ serviceCount' = serviceCount + 1
  /\ serviceData' = NewServiceData
  /\ UNCHANGED rioMainConfig

\* The last service has no NEW_SERVICE after it.
EndOfFile ==
  /\ loading = "reading" /\ line = Len(file)
  /\ services' = Append(services, serviceData)
  /\ loading' = "loaded"
  /\ UNCHANGED <<file, line, rioMainConfig, serviceData, serviceCount>>

LoadNext ==
  OpenFile \/ SkipLine \/ SubstrThrows \/ SetMain \/ SetService \/ NewService \/ EndOfFile

-----------------------------------------------------------------------------
(* What the file says, read as a whole.                                     *)

Lines(k) == {i \in DOMAIN file : file[i].key = k}

\* What the last of these lines with key k says of it.
LastOf(k, lines) ==
  IF Lines(k) \cap lines = {} THEN Unset
  ELSE Converted(k, file[Max(Lines(k) \cap lines)].value)

\* The lines after the i-th NEW_SERVICE, up to the next.
Section(i) ==
  {n \in DOMAIN file : Cardinality({h \in Lines("NEW_SERVICE") : h <= n}) = i}

\* The loader keeps one service per NEW_SERVICE line, each with the last value its
\* own section gives each key, whatever order the lines have.  A file without
\* NEW_SERVICE yields one service all the same, so that the test of _tmain for an
\* empty list never fires; only a key with nothing after '=' stops the reading.
ServicesAsWritten ==
  /\ loading = "loaded" =>
       /\ rioMainConfig = [k \in MainKeys |-> LastOf(k, DOMAIN file)]
       /\ LET n == Cardinality(Lines("NEW_SERVICE")) IN
          services = IF n = 0 THEN <<[k \in ServiceKeys |-> LastOf(k, DOMAIN file)]>>
                     ELSE [i \in 1..n |-> [k \in ServiceKeys |-> LastOf(k, Section(i))]]
  /\ loading = "threw" => \E i \in DOMAIN file : file[i].key # "" /\ file[i].value = NoValue
=============================================================================
