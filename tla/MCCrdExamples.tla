--------------------------- MODULE MCCrdExamples ---------------------------
(* Instances of CrdExamples for TLC. *)
EXTENDS CrdExamples

CONSTANTS demo, default, pgsql, mariadb, mysql

InDemo     == {pgsql, mariadb}
Namespaced == [o \in InDemo \cup {mysql} |-> IF o \in InDemo THEN demo ELSE default]

File(o)     == [manifest |-> TRUE, known |-> TRUE, object |-> o]
Foreign(o)  == [manifest |-> TRUE, known |-> FALSE, object |-> o]
NoManifest  == [manifest |-> FALSE, known |-> FALSE, object |-> demo]

\* testdata/resources; a directory with a file that the program does not know; one
\* whose namespace comes too late; and one with a database of another namespace.
SomeDirectories ==
    {<<File(demo), File(pgsql), File(mariadb)>>,
     <<NoManifest, File(demo), Foreign(pgsql)>>,
     <<File(pgsql), File(demo)>>,
     <<File(demo), File(pgsql), File(mysql)>>}

=============================================================================
