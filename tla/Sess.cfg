CONSTANTS
  Inputs = {a, b}
  First = a
  Outputs = {o, p}
  Vals = {a, b}
  Flat = flat
  Other = other
  Null = null
  None = none
  Slots <- OneColumn
  Asked = {o}
  InType <- Numbers
  Clients = {"c", "python"}
  RowCounts = {1}
  Batches = {1, 2, 3}
  Lent = {a, b}
  Types = {"f32"}
  Scored <- Uniform
  Strings <- Labelled
SPECIFICATION ClientSpec
INVARIANTS STypeOK LastRunAnswered HandleStable WritesThisCall ProbaOfThisFrame
