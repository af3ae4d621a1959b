CONSTANTS Dirs = {"gen", "code_bubble", "override"}
          MayMiss <- Override
          MaxEdits = 3
SPECIFICATION Spec
INVARIANTS TypeOK WakeKept
PROPERTY Noticed
CHECK_DEADLOCK FALSE
