CONSTANTS
    Classes <- MCClasses
    NoClass = "none"
    Library <- MCLibrary
    Module <- MCModule
    Name <- MCName
    Hierarchy <- MCHierarchy
    Super <- MCSuper
    Declared <- MCDeclared
    Broken <- MCBroken
    MaxObjects = 1
SPECIFICATION Spec
INVARIANTS RegistryConsistent ObjectsAreWhole InspectorIsCurrent
